---- MODULE Spec2Model ----
(***************************************************************************)
(* Real-time activity monitors of the data-generation front end: the four  *)
(* monitor components (UnifiedRealTimeMonitor, RealTimeMonitor,            *)
(* EnhancedRealTimeMonitor, SimpleRealTimeMonitor), their message effect   *)
(* (normalize -> classify -> prepend to a bounded list, progress gauge,    *)
(* pause gate), the clear control and the filtered view.                   *)
(*                                                                         *)
(* Text is modelled character by character as TLA+ strings.  Glyphs that   *)
(* are emoji in the source are written as a name in braces each (see the   *)
(* G_ and M_ definitions); braces are never used otherwise.                *)
(***************************************************************************)
EXTENDS Integers, Sequences, FiniteSets, TLC

(***************************************************************************)
(* Bounds of the model.                                                    *)
(***************************************************************************)
\* capacity used for the monitors whose capacity is a literal in the code
\* (100 in RealTimeMonitor, 50 in the Enhanced and Simple monitors)
FixedCap == 2
\* largest value of the maxLogs prop of UnifiedRealTimeMonitor
MaxCap == 2
\* number of inbound messages delivered by the transport
MaxEvents == 3
\* number of records appended between two clears
MaxAccepted == 3
MaxNow == 1
\* rows shown on one page of a review editor (25 and 50 in the components)
ItemsPerPage == 1
\* largest number of rows in a review editor
MaxRows == 2
\* number of requests the DataGenerator page sends to the backend
MaxAttempts == 3

(***************************************************************************)
(* Characters and strings (String.prototype methods used by the monitors). *)
(***************************************************************************)
UpperChars == "ABCDEFGHIJKLMNOPQRSTUVWXYZ"
LowerChars == "abcdefghijklmnopqrstuvwxyz"
DigitChars == "0123456789"

Ch(s, i) == SubSeq(s, i, i)

\* position of the one-character string c in the string set, 0 when absent
PosIn(c, set) ==
  LET hits == {i \in 1..Len(set) : Ch(set, i) = c}
  IN IF hits = {} THEN 0 ELSE CHOOSE i \in hits : TRUE

IsDigit(c) == PosIn(c, DigitChars) # 0
IsSpace(c) == c = " "
IsWordCh(c) == PosIn(c, UpperChars) # 0 \/ PosIn(c, LowerChars) # 0 \/ IsDigit(c) \/ c = "_"

LowerCh(c) ==
  LET p == PosIn(c, UpperChars) IN IF p = 0 THEN c ELSE Ch(LowerChars, p)

RECURSIVE toLowerCase(_)
toLowerCase(s) ==
  IF Len(s) = 0 THEN "" ELSE LowerCh(Ch(s, 1)) \o toLowerCase(SubSeq(s, 2, Len(s)))

\* String.prototype.includes
includes(s, sub) ==
  \E i \in 1..(Len(s) - Len(sub) + 1) : SubSeq(s, i, i + Len(sub) - 1) = sub

\* String.prototype.trim (the only white space of the alphabet is the blank)
trim(s) ==
  LET ns == {i \in 1..Len(s) : ~IsSpace(Ch(s, i))}
  IN IF ns = {} THEN ""
     ELSE SubSeq(s, CHOOSE i \in ns : \A j \in ns : i <= j,
                    CHOOSE i \in ns : \A j \in ns : j <= i)

RECURSIVE parseDigits(_, _)
parseDigits(s, acc) ==
  IF Len(s) = 0 THEN acc
  ELSE parseDigits(SubSeq(s, 2, Len(s)), 10 * acc + (PosIn(Ch(s, 1), DigitChars) - 1))

\* parseInt of a string of decimal digits
parseInt(s) == parseDigits(s, 0)

(***************************************************************************)
(* Regular expressions.  A pattern is a sequence of items, matched by      *)
(* backtracking with the priorities of the JavaScript engine: the leftmost *)
(* start position, alternatives in their written order, quantifiers greedy.*)
(*   Lit(t)      the literal text t                                        *)
(*   One(c)      one character of class c                                  *)
(*   Many(c, n)  n or more characters of class c (n = 0 is *, n = 1 is +)  *)
(*   Alt(ps)     the first of the patterns ps that lets the rest match     *)
(*   Open(g) .. Close(g)   capture group g                                 *)
(***************************************************************************)
Lit(t) == [k |-> "lit", t |-> t]
One(c) == [k |-> "one", c |-> c]
Many(c, n) == [k |-> "many", c |-> c, min |-> n]
Alt(ps) == [k |-> "alt", ps |-> ps]
Open(g) == [k |-> "open", g |-> g]
Close(g) == [k |-> "close", g |-> g]
\* a captured group: (p)
Grp(g, p) == <<Open(g)>> \o p \o <<Close(g)>>

MaxGroups == 3

InCls(c, ch) ==
  CASE c = "digit"      -> IsDigit(ch)                      \* \d
    [] c = "space"      -> IsSpace(ch)                      \* \s
    [] c = "word"       -> IsWordCh(ch)                     \* \w
    [] c = "notcolon"   -> ch # ":"                         \* [^:]
    [] c = "wordspace"  -> IsWordCh(ch) \/ IsSpace(ch)      \* [\w\s]
    [] c = "colonspace" -> ch = ":" \/ IsSpace(ch)          \* [:\s]
    [] c = "colondash"  -> ch = ":" \/ ch = "-"             \* [:-]
    [] c = "any"        -> TRUE                             \* .

\* length of the longest run of class c starting at pos
Run(c, s, pos) ==
  LET bad == {i \in pos..Len(s) : ~InCls(c, Ch(s, i))}
  IN IF bad = {} THEN Len(s) - pos + 1
     ELSE (CHOOSE i \in bad : \A j \in bad : i <= j) - pos

NoMatch == [ok |-> FALSE]

RECURSIVE MatchAt(_, _, _, _, _)
RECURSIVE TryLen(_, _, _, _, _, _, _)
RECURSIVE TryAlt(_, _, _, _, _, _, _)

\* greedy quantifier: the longest run first, then one character less, ...
TryLen(rest, s, pos, caps, ci, n, min) ==
  IF n < min THEN NoMatch
  ELSE LET r == MatchAt(rest, s, pos + n, caps, ci)
       IN IF r.ok THEN r ELSE TryLen(rest, s, pos, caps, ci, n - 1, min)

\* alternation: alternative i first, then i + 1, ...
TryAlt(ps, i, rest, s, pos, caps, ci) ==
  IF i > Len(ps) THEN NoMatch
  ELSE LET r == MatchAt(ps[i] \o rest, s, pos, caps, ci)
       IN IF r.ok THEN r ELSE TryAlt(ps, i + 1, rest, s, pos, caps, ci)

\* match the items from position pos on; caps holds <<start, end>> per group
MatchAt(items, s, pos, caps, ci) ==
  IF Len(items) = 0 THEN [ok |-> TRUE, caps |-> caps, end |-> pos]
  ELSE
    LET it == Head(items)
        rest == Tail(items)
    IN CASE it.k = "lit" ->
              LET got == SubSeq(s, pos, pos + Len(it.t) - 1)
                  same == IF ci THEN toLowerCase(got) = toLowerCase(it.t)
                                ELSE got = it.t
              IN IF pos + Len(it.t) - 1 <= Len(s) /\ same
                 THEN MatchAt(rest, s, pos + Len(it.t), caps, ci)
                 ELSE NoMatch
         [] it.k = "one" ->
              IF pos <= Len(s) /\ InCls(it.c, Ch(s, pos))
              THEN MatchAt(rest, s, pos + 1, caps, ci)
              ELSE NoMatch
         [] it.k = "many" ->
              TryLen(rest, s, pos, caps, ci, Run(it.c, s, pos), it.min)
         [] it.k = "alt" ->
              TryAlt(it.ps, 1, rest, s, pos, caps, ci)
         [] it.k = "open" ->
              MatchAt(rest, s, pos, [caps EXCEPT ![it.g] = <<pos, 0>>], ci)
         [] it.k = "close" ->
              MatchAt(rest, s, pos, [caps EXCEPT ![it.g] = <<caps[it.g][1], pos>>], ci)

RECURSIVE SearchFrom(_, _, _, _)
SearchFrom(items, s, start, ci) ==
  IF start > Len(s) + 1 THEN NoMatch
  ELSE LET r == MatchAt(items, s, start, [g \in 1..MaxGroups |-> <<0, 0>>], ci)
       IN IF r.ok THEN r ELSE SearchFrom(items, s, start + 1, ci)

\* String.prototype.match(regex) without the g flag: ok is FALSE for null;
\* has[g] tells whether group g took part, m[g] is its text
MatchResult(r, s) ==
  IF ~r.ok THEN [ok |-> FALSE]
  ELSE [ok |-> TRUE,
        has |-> [g \in 1..MaxGroups |-> r.caps[g][2] # 0],
        m |-> [g \in 1..MaxGroups |->
                 IF r.caps[g][2] = 0 THEN ""
                 ELSE SubSeq(s, r.caps[g][1], r.caps[g][2] - 1)]]

match(s, re) == MatchResult(SearchFrom(re.items, s, 1, re.ci), s)

\* /.../ and /.../i
Re(items) == [items |-> items, ci |-> FALSE]
ReI(items) == [items |-> items, ci |-> TRUE]
\* (a|b|c) over literal alternatives
LitAlt(ts) == Alt([i \in 1..Len(ts) |-> <<Lit(ts[i])>>])


(***************************************************************************)
(* Glyphs.  G_ are the emoji of RealTimeMonitor and                        *)
(* EnhancedRealTimeMonitor; M_ are the character sequences that stand in   *)
(* the source text of UnifiedRealTimeMonitor at the same places (the file  *)
(* holds the emoji decoded with the wrong character set).                  *)
(***************************************************************************)
G_CHECK == "{check}"
G_CYCLE == "{cycle}"
G_CROSS == "{cross}"
G_CAUTION == "{caution}"
G_ROBOT == "{robot}"
G_BRAIN == "{brain}"
G_LOCK == "{lock}"
G_SCALES == "{scales}"
G_LINK == "{link}"
G_TARGET == "{target}"
G_CHART == "{chart}"
G_PARTY == "{party}"
G_LENS == "{lens}"
M_CHECK == "{mcheck}"
M_CYCLE == "{mcycle}"
M_CROSS == "{mcross}"
M_CAUTION == "{mcaution}"
M_ROBOT == "{mrobot}"
M_BRAIN == "{mbrain}"
M_LOCK == "{mlock}"
M_SCALES == "{mscales}"
M_LINK == "{mlink}"
M_TARGET == "{mtarget}"

(***************************************************************************)
(* JavaScript objects are records whose domain holds the fields that are   *)
(* present; a field that is undefined is absent from the domain.           *)
(***************************************************************************)
Has(d, f) == f \in DOMAIN d
\* d.f || dflt, for string fields
StrOr(d, f, dflt) == IF Has(d, f) /\ d[f] # "" THEN d[f] ELSE dflt
\* the fields fs of d that are present
Pick(d, fs) == [f \in (fs \cap DOMAIN d) |-> d[f]]
\* {f: v} when present is TRUE, {} otherwise
Opt(f, v, present) == IF present THEN (f :> v) ELSE <<>>

\* a value of data.message that is truthy and not a string (a number, an
\* object): calling a String method on it throws a TypeError
NotAString == "{not-a-string}"
\* the tail of every line pattern:  \s*([^:]+):\s*(.+)  with groups g, g + 1
LabelColonRest(g) ==
  <<Many("space", 0)>> \o Grp(g, <<Many("notcolon", 1)>>) \o
  <<Lit(":"), Many("space", 0)>> \o Grp(g + 1, <<Many("any", 1)>>)


(***************************************************************************)
(* Inbound messages.  lastMessage is Null or [n, type, data]: n is the     *)
(* identity of the message object (every delivery is a new object), data   *)
(* is the payload object; a payload that is a plain string s is written    *)
(* [text |-> s] and has no fields of its own.                              *)
(***************************************************************************)
Null == [null |-> TRUE]
IsTextPayload(data) == Has(data, "text")
\* the fields of lastMessage.data as seen through property access
Fields(msg) ==
  IF ~Has(msg, "data") \/ IsTextPayload(msg.data) THEN <<>> ELSE msg.data
\* lastMessage.data?.message is truthy
HasMessage(msg) == Has(Fields(msg), "message") /\ Fields(msg).message # ""
\* lastMessage.data is truthy
HasData(msg) ==
  Has(msg, "data") /\ (IsTextPayload(msg.data) => msg.data.text # "")

\* results of one run of the body of a message effect
NoLog == [kind |-> "null"]
Thrown == [kind |-> "throw"]
Log(d) == [kind |-> "log", logData |-> d]

(***************************************************************************)
(* UnifiedRealTimeMonitor: normalization and classification.               *)
(***************************************************************************)
U_patterns == <<
  [type |-> "progress",
   regex |-> Re(<<Lit("[")>> \o Grp(1, <<Many("digit", 1)>>) \o <<Lit("%]")>>
                \o LabelColonRest(2))],
  [type |-> "agent",
   regex |-> Re(Grp(1, <<LitAlt(<<M_CHECK, M_CYCLE, M_CROSS, M_CAUTION, M_ROBOT,
                                  M_BRAIN, M_LOCK, M_SCALES, M_LINK, M_TARGET>>)>>)
                \o LabelColonRest(2))],
  [type |-> "gemini",
   regex |-> ReI(<<Lit("Gemini"), Many("space", 1)>> \o Grp(1, <<Many("wordspace", 1)>>)
                 \o <<Lit(":"), Many("space", 0)>> \o Grp(2, <<Many("any", 1)>>))],
  [type |-> "system",
   regex |-> ReI(<<Lit("System"), Many("space", 1)>> \o Grp(1, <<Many("wordspace", 1)>>)
                 \o <<Lit(":"), Many("space", 0)>> \o Grp(2, <<Many("any", 1)>>))],
  [type |-> "error",
   regex |-> ReI(Grp(1, <<LitAlt(<<"Error", "Failed", "Exception">>)>>)
                 \o <<Lit(":"), Many("space", 0)>> \o Grp(2, <<Many("any", 1)>>))],
  [type |-> "completion",
   regex |-> ReI(Grp(1, <<LitAlt(<<"Completed", "Finished", "Done">>)>>)
                 \o <<Lit(":"), Many("space", 0)>> \o Grp(2, <<Many("any", 1)>>))] >>

\* variant of FirstMatch for C8: the loop keeps the last pattern that matches
LastMatch(patterns, message) ==
  LET hits == {i \in 1..Len(patterns) : match(message, patterns[i].regex).ok}
  IN IF hits = {} THEN 0 ELSE CHOOSE i \in hits : \A j \in hits : i >= j

\* index of the first pattern of the table that matches, 0 when none does
FirstMatch(patterns, message) ==
  LET hits == {i \in 1..Len(patterns) : match(message, patterns[i].regex).ok}
  IN IF hits = {} THEN 0 ELSE CHOOSE i \in hits : \A j \in hits : i <= j

\* the switch over the type of the matching pattern
U_case(type, mt, message) ==
  CASE type = "progress" ->
         [progress |-> parseInt(mt.m[1]), step |-> trim(mt.m[2]),
          message |-> trim(mt.m[3]), type |-> "progress"]
    [] type = "agent" ->
         [status |-> mt.m[1], agent |-> trim(mt.m[2]),
          message |-> trim(mt.m[3]), type |-> "agent"]
    [] type = "gemini" ->
         [agent |-> "Gemini AI", status |-> mt.m[1],
          message |-> trim(mt.m[2]), type |-> "gemini"]
    [] type = "error" ->
         [level |-> "error", message |-> trim(mt.m[2]), type |-> "error"]
    [] type = "completion" ->
         [level |-> "success", message |-> trim(mt.m[2]), type |-> "completion"]
    [] OTHER ->
         [message |-> IF mt.m[2] # "" THEN mt.m[2]
                      ELSE IF mt.m[1] # "" THEN mt.m[1] ELSE message,
          type |-> "system"]

\* the body of the for loop for the first matching pattern i, and the
\* fallback after the loop when there is none
U_parseAt(i, message) ==
  IF i = 0 THEN [message |-> message, type |-> "system"]
  ELSE U_case(U_patterns[i].type, match(message, U_patterns[i].regex), message)

\* the for loop over the pattern table
U_parseMessage(message) == U_parseAt(FirstMatch(U_patterns, message), message)

\* data.f?.toLowerCase() || ''
LowerOr(data, f) == IF Has(data, f) THEN toLowerCase(data[f]) ELSE ""

U_detectActivityType(data) ==
  LET message == LowerOr(data, "message")
      step == LowerOr(data, "step")
      type == LowerOr(data, "type")
  IN IF type = "gemini" \/ includes(message, "gemini") \/ includes(step, "gemini")
       THEN "gemini_call"
     ELSE IF type = "agent" \/ includes(message, "agent") THEN "agent_response"
     ELSE IF includes(step, "initialization") \/ includes(message, "initializing")
       THEN "initialization"
     ELSE IF includes(step, "domain") \/ includes(message, "domain")
       THEN "domain_analysis"
     ELSE IF includes(step, "privacy") \/ includes(message, "privacy")
       THEN "privacy_assessment"
     ELSE IF includes(step, "bias") \/ includes(message, "bias") THEN "bias_detection"
     ELSE IF includes(step, "relationship") \/ includes(message, "relationship")
       THEN "relationship_mapping"
     ELSE IF includes(step, "quality") \/ includes(message, "quality")
       THEN "quality_planning"
     ELSE IF includes(step, "generation") \/ includes(message, "generating")
       THEN "data_generation"
     ELSE IF includes(step, "validation") \/ includes(message, "validating")
       THEN "quality_validation"
     ELSE IF includes(step, "assembly") \/ includes(message, "assembling")
       THEN "final_assembly"
     ELSE IF includes(step, "completion") \/ includes(message, "completed")
       THEN "completion"
     ELSE IF (Has(data, "progress") /\ data.progress = -1)
             \/ includes(message, "error") \/ includes(message, "failed")
       THEN "error"
     ELSE "system"

\* data.f === v, for a field that may be absent
FieldIs(data, f, v) == Has(data, f) /\ data[f] = v

U_detectStatus(data) ==
  IF FieldIs(data, "progress", 100) THEN "completed"
  ELSE IF FieldIs(data, "progress", -1) THEN "error"
  ELSE IF Has(data, "progress") /\ data.progress > 0 THEN "in_progress"
  ELSE IF FieldIs(data, "status", M_CHECK) THEN "completed"
  ELSE IF FieldIs(data, "status", M_CROSS) THEN "error"
  ELSE IF FieldIs(data, "status", M_CAUTION) THEN "fallback"
  ELSE IF FieldIs(data, "level", "error") THEN "error"
  ELSE IF FieldIs(data, "level", "success") THEN "completed"
  ELSE "started"

U_detectAgent(data) ==
  LET message == LowerOr(data, "message")
      step == LowerOr(data, "step")
  IN IF Has(data, "agent") /\ data.agent # "" THEN data.agent
     ELSE IF includes(message, "domain expert") \/ includes(step, "domain")
       THEN "Domain Expert"
     ELSE IF includes(message, "privacy agent") \/ includes(step, "privacy")
       THEN "Privacy Agent"
     ELSE IF includes(message, "bias detector") \/ includes(step, "bias")
       THEN "Bias Detector"
     ELSE IF includes(message, "quality agent") \/ includes(step, "quality")
       THEN "Quality Agent"
     ELSE IF includes(message, "relationship agent") \/ includes(step, "relationship")
       THEN "Relationship Agent"
     ELSE IF includes(message, "gemini") \/ includes(message, "2.0 flash")
       THEN "Gemini AI"
     ELSE IF includes(message, "ollama") THEN "Ollama"
     ELSE "System"

\* variant of U_detectLevel for C19: the level is always derived, an
\* explicit level is not looked at
U_detectLevelDerived(data) ==
  IF FieldIs(data, "progress", -1) \/ FieldIs(data, "status", M_CROSS) THEN "error"
  ELSE IF FieldIs(data, "progress", 100) \/ FieldIs(data, "status", M_CHECK)
    THEN "success"
  ELSE IF FieldIs(data, "status", M_CAUTION) THEN "warning"
  ELSE "info"

U_detectLevel(data) ==
  IF Has(data, "level") /\ data.level # "" THEN data.level
  ELSE IF FieldIs(data, "progress", -1) \/ FieldIs(data, "status", M_CROSS) THEN "error"
  ELSE IF FieldIs(data, "progress", 100) \/ FieldIs(data, "status", M_CHECK)
    THEN "success"
  ELSE IF FieldIs(data, "status", M_CAUTION) THEN "warning"
  ELSE "info"

\* what the try block computes for lastMessage before it touches any state
U_logData(msg) ==
  IF msg.type = "generation_update" /\ HasData(msg) THEN Log(Fields(msg))
  ELSE IF HasMessage(msg)
    THEN IF Fields(msg).message = NotAString THEN Thrown
         ELSE Log(U_parseMessage(Fields(msg).message))
  ELSE NoLog

\* the ActivityLog built from logData; ghost field "of" is the identity of
\* the message the record was built from
U_newActivity(msg, logData, t, r) ==
  [id |-> [t |-> t, r |-> r],
   timestamp |-> t,
   type |-> U_detectActivityType(logData),
   status |-> U_detectStatus(logData),
   message |-> StrOr(logData, "message", "Processing..."),
   metadata |-> Pick(logData, {"progress", "step", "agent_data", "type"})
                @@ Opt("raw_message", Fields(msg).message, Has(Fields(msg), "message")),
   agent |-> U_detectAgent(logData),
   level |-> U_detectLevel(logData),
   of |-> msg.n]
  @@ Pick(logData, {"progress"})
  @@ Opt("details", StrOr(logData, "details", StrOr(logData, "step", "")),
         StrOr(logData, "details", StrOr(logData, "step", "")) # "")

\* the record added by the catch block
U_errorActivity(msg, t) ==
  [id |-> [pfx |-> "error", t |-> t],
   timestamp |-> t,
   type |-> "error",
   status |-> "error",
   message |-> "Failed to parse incoming log message",
   level |-> "error",
   agent |-> "System",
   of |-> msg.n]

\* outcome of the effect body: the record to prepend (if any) and the new
\* gauge value (if any)
U_outcome(ld, msg, t, r) ==
  IF ld.kind = "throw"
       \/ (ld.kind = "log" /\ FieldIs(ld.logData, "message", NotAString))
    THEN [add |-> <<U_errorActivity(msg, t)>>, gauge |-> <<>>]
  ELSE IF ld.kind = "null" THEN [add |-> <<>>, gauge |-> <<>>]
  ELSE [add |-> <<U_newActivity(msg, ld.logData, t, r)>>,
        gauge |-> IF Has(ld.logData, "progress") /\ ld.logData.progress >= 0
                  THEN <<ld.logData.progress>> ELSE <<>>]

U_effect(msg, t, r) == U_outcome(U_logData(msg), msg, t, r)

(***************************************************************************)
(* RealTimeMonitor: normalization and classification.                      *)
(***************************************************************************)
\* /Name1\s+Name2[:\s]+(.+)/i
R_agentLine(w1, w2) ==
  ReI(<<Lit(w1), Many("space", 1), Lit(w2), Many("colonspace", 1)>>
      \o Grp(1, <<Many("any", 1)>>))

R_patterns == <<
  [type |-> "progress",
   regex |-> Re(<<Lit("[")>> \o Grp(1, <<Many("digit", 1)>>) \o <<Lit("%]")>>
                \o LabelColonRest(2))],
  [type |-> "agent_action",
   regex |-> Re(Grp(1, <<LitAlt(<<G_ROBOT, G_BRAIN, G_LOCK, G_SCALES, G_LINK,
                                  G_TARGET, G_CHART>>)>>)
                \o LabelColonRest(2))],
  [type |-> "gemini",
   regex |-> ReI(<<Lit("Gemini"), Many("space", 1)>>
                 \o Grp(1, <<Alt(<< <<Lit("2.0"), Many("space", 1), Lit("Flash")>>,
                                    <<Lit("AI")>>, <<Lit("Model")>> >>)>>)
                 \o <<Many("space", 0), One("colondash"), Many("space", 0)>>
                 \o Grp(2, <<Many("any", 1)>>))],
  [type |-> "agent_status",
   regex |-> ReI(Grp(1, <<LitAlt(<<G_CHECK, G_CYCLE, G_CROSS, G_CAUTION, G_TARGET>>)>>)
                 \o <<Many("space", 0)>> \o Grp(2, <<Many("notcolon", 1)>>)
                 \o <<Many("space", 1), Lit("Agent:"), Many("space", 0)>>
                 \o Grp(3, <<Many("any", 1)>>))],
  [type |-> "domain_expert", regex |-> R_agentLine("Domain", "Expert")],
  [type |-> "privacy_agent", regex |-> R_agentLine("Privacy", "Agent")],
  [type |-> "bias_detector", regex |-> R_agentLine("Bias", "Detector")],
  [type |-> "quality_agent", regex |-> R_agentLine("Quality", "Agent")],
  [type |-> "relationship_agent", regex |-> R_agentLine("Relationship", "Agent")],
  [type |-> "system",
   regex |-> ReI(<<Lit("System"), Many("colonspace", 1)>> \o Grp(1, <<Many("any", 1)>>))],
  [type |-> "error",
   regex |-> ReI(Grp(1, <<LitAlt(<<"Error", "Failed", "Exception">>)>>)
                 \o <<Many("colonspace", 1)>> \o Grp(2, <<Many("any", 1)>>))] >>

R_case(type, mt, message) ==
  CASE type = "progress" ->
         [progress |-> parseInt(mt.m[1]), step |-> trim(mt.m[2]),
          message |-> trim(mt.m[3]), type |-> "progress"]
    [] type = "agent_action" ->
         [emoji |-> mt.m[1], agent |-> trim(mt.m[2]),
          message |-> trim(mt.m[3]), type |-> "agent_action"]
    [] type = "gemini" ->
         [agent |-> "Gemini AI", message |-> trim(mt.m[2]), type |-> "gemini"]
    [] type = "agent_status" ->
         [status |-> mt.m[1], agent |-> trim(mt.m[2]),
          message |-> trim(mt.m[3]), type |-> "agent"]
    [] type = "domain_expert" ->
         [agent |-> "Domain Expert", message |-> trim(mt.m[1]), type |-> "domain_analysis"]
    [] type = "privacy_agent" ->
         [agent |-> "Privacy Agent", message |-> trim(mt.m[1]),
          type |-> "privacy_assessment"]
    [] type = "bias_detector" ->
         [agent |-> "Bias Detector", message |-> trim(mt.m[1]), type |-> "bias_detection"]
    [] type = "quality_agent" ->
         [agent |-> "Quality Agent", message |-> trim(mt.m[1]), type |-> "quality_planning"]
    [] type = "relationship_agent" ->
         [agent |-> "Relationship Agent", message |-> trim(mt.m[1]),
          type |-> "relationship_mapping"]
    [] type = "error" ->
         [message |-> trim(mt.m[2]), type |-> "error", level |-> "error"]
    [] OTHER ->
         [message |-> IF mt.m[1] # "" THEN mt.m[1]
                      ELSE IF mt.m[2] # "" THEN mt.m[2] ELSE message,
          type |-> "system"]

R_parseAt(i, message) ==
  IF i = 0 THEN [message |-> message, type |-> "system", level |-> "info"]
  ELSE R_case(R_patterns[i].type, match(message, R_patterns[i].regex), message)

R_parseMessage(message) == R_parseAt(FirstMatch(R_patterns, message), message)

R_detectLogType(data) ==
  LET message == LowerOr(data, "message")
      step == LowerOr(data, "step")
  IN IF Has(data, "type") /\ data.type # "" THEN data.type
     ELSE IF includes(step, "initialization") \/ includes(message, "initializing")
       THEN "initialization"
     ELSE IF includes(step, "domain") \/ includes(message, "domain")
             \/ FieldIs(data, "agent", "Domain Expert")
       THEN "domain_analysis"
     ELSE IF includes(step, "privacy") \/ includes(message, "privacy")
             \/ FieldIs(data, "agent", "Privacy Agent")
       THEN "privacy_assessment"
     ELSE IF includes(step, "bias") \/ includes(message, "bias")
             \/ FieldIs(data, "agent", "Bias Detector")
       THEN "bias_detection"
     ELSE IF includes(step, "relationship") \/ includes(message, "relationship")
             \/ FieldIs(data, "agent", "Relationship Agent")
       THEN "relationship_mapping"
     ELSE IF includes(step, "quality") \/ includes(message, "quality")
             \/ FieldIs(data, "agent", "Quality Agent")
       THEN "quality_planning"
     ELSE IF includes(step, "generation") \/ includes(message, "generating")
       THEN "data_generation"
     ELSE IF includes(step, "validation") \/ includes(message, "validating")
       THEN "quality_validation"
     ELSE IF includes(step, "assembly") \/ includes(message, "assembling")
       THEN "final_assembly"
     ELSE IF includes(step, "completion") \/ includes(message, "completed")
       THEN "completion"
     ELSE IF includes(message, "gemini") \/ FieldIs(data, "agent", "Gemini AI")
       THEN "gemini"
     ELSE IF (Has(data, "progress") /\ data.progress = -1)
             \/ includes(message, "error") \/ includes(message, "failed")
       THEN "error"
     ELSE "system"

R_detectLogStatus(data) ==
  IF FieldIs(data, "progress", 100) THEN "completed"
  ELSE IF FieldIs(data, "progress", -1) \/ FieldIs(data, "level", "error") THEN "error"
  ELSE IF Has(data, "progress") /\ data.progress > 0 THEN "in_progress"
  ELSE IF FieldIs(data, "status", G_CHECK) THEN "completed"
  ELSE IF FieldIs(data, "status", G_CROSS) THEN "error"
  ELSE IF FieldIs(data, "status", G_CAUTION) THEN "warning"
  ELSE "started"

R_detectAgent(data) ==
  LET message == LowerOr(data, "message")
  IN IF Has(data, "agent") /\ data.agent # "" THEN data.agent
     ELSE IF includes(message, "domain expert") THEN "Domain Expert"
     ELSE IF includes(message, "privacy agent") THEN "Privacy Agent"
     ELSE IF includes(message, "bias detector") THEN "Bias Detector"
     ELSE IF includes(message, "quality agent") THEN "Quality Agent"
     ELSE IF includes(message, "relationship agent") THEN "Relationship Agent"
     ELSE IF includes(message, "gemini") \/ includes(message, "2.0 flash")
       THEN "Gemini AI"
     ELSE "System"

R_detectLevel(data) ==
  IF Has(data, "level") /\ data.level # "" THEN data.level
  ELSE IF FieldIs(data, "progress", -1) \/ FieldIs(data, "status", G_CROSS) THEN "error"
  ELSE IF FieldIs(data, "progress", 100) \/ FieldIs(data, "status", G_CHECK)
    THEN "success"
  ELSE IF FieldIs(data, "status", G_CAUTION) THEN "warning"
  ELSE "info"

R_logData(msg) ==
  IF msg.type = "generation_update" /\ HasData(msg) THEN Log(Fields(msg))
  ELSE IF HasMessage(msg)
    THEN IF Fields(msg).message = NotAString THEN Thrown
         ELSE Log(R_parseMessage(Fields(msg).message))
  ELSE NoLog

\* a String method is called on logData.message: by detectLogType unless
\* logData.type is set, by detectAgent unless logData.agent is set
R_touchesMessage(logData) ==
  ~(Has(logData, "type") /\ logData.type # "")
  \/ ~(Has(logData, "agent") /\ logData.agent # "")

R_newLog(msg, logData, t, r) ==
  [id |-> [t |-> t, r |-> r],
   timestamp |-> t,
   type |-> R_detectLogType(logData),
   status |-> R_detectLogStatus(logData),
   message |-> StrOr(logData, "message", "Processing..."),
   agent |-> R_detectAgent(logData),
   level |-> R_detectLevel(logData),
   metadata |-> Pick(logData, {"emoji", "step"})
                @@ Opt("raw_message", Fields(msg).message, Has(Fields(msg), "message")),
   of |-> msg.n]
  @@ Pick(logData, {"progress"})

\* the catch block only writes to the console
R_outcome(ld, msg, t, r) ==
  IF ld.kind = "throw"
       \/ (ld.kind = "log" /\ FieldIs(ld.logData, "message", NotAString)
           /\ R_touchesMessage(ld.logData))
    THEN [add |-> <<>>, gauge |-> <<>>]
  ELSE IF ld.kind = "null" THEN [add |-> <<>>, gauge |-> <<>>]
  ELSE [add |-> <<R_newLog(msg, ld.logData, t, r)>>,
        gauge |-> IF Has(ld.logData, "progress") /\ ld.logData.progress >= 0
                  THEN <<ld.logData.progress>> ELSE <<>>]

R_effect(msg, t, r) == R_outcome(R_logData(msg), msg, t, r)

(***************************************************************************)
(* SimpleRealTimeMonitor: normalization and classification.                *)
(***************************************************************************)
S_progressPattern ==
  Re(<<Lit("[")>> \o Grp(1, <<Many("digit", 1)>>) \o <<Lit("%]")>> \o LabelColonRest(2))

S_fromMatch(progressMatch) ==
  IF progressMatch.ok
  THEN Log([progress |-> parseInt(progressMatch.m[1]),
            step |-> trim(progressMatch.m[2]),
            message |-> trim(progressMatch.m[3])])
  ELSE NoLog

S_logData(msg) ==
  IF msg.type = "generation_update" /\ HasData(msg) THEN Log(Fields(msg))
  ELSE IF msg.type = "raw_message" /\ HasMessage(msg)
    THEN IF Fields(msg).message = NotAString THEN Thrown
         ELSE S_fromMatch(match(Fields(msg).message, S_progressPattern))
  ELSE NoLog

S_detectType(data) ==
  LET message == LowerOr(data, "message")
      step == LowerOr(data, "step")
  IN IF includes(step, "domain") \/ includes(message, "domain") THEN "domain_analysis"
     ELSE IF includes(step, "privacy") \/ includes(message, "privacy")
       THEN "privacy_assessment"
     ELSE IF includes(step, "bias") \/ includes(message, "bias") THEN "bias_detection"
     ELSE IF includes(step, "generation") \/ includes(message, "generating")
       THEN "data_generation"
     ELSE IF includes(step, "quality") \/ includes(message, "quality")
       THEN "quality_validation"
     ELSE "system"

S_detectStatus(data) ==
  IF FieldIs(data, "progress", 100) THEN "completed"
  ELSE IF FieldIs(data, "progress", -1) THEN "error"
  ELSE IF Has(data, "progress") /\ data.progress > 0 THEN "in_progress"
  ELSE "started"

S_detectAgent(data) ==
  LET message == LowerOr(data, "message")
      step == LowerOr(data, "step")
  IN IF includes(message, "domain") \/ includes(step, "domain") THEN "Domain Expert"
     ELSE IF includes(message, "privacy") \/ includes(step, "privacy")
       THEN "Privacy Agent"
     ELSE IF includes(message, "bias") \/ includes(step, "bias") THEN "Bias Detector"
     ELSE IF includes(message, "quality") \/ includes(step, "quality")
       THEN "Quality Agent"
     ELSE "System"

S_newActivity(msg, logData, t, r) ==
  [id |-> [t |-> t, r |-> r],
   timestamp |-> t,
   type |-> S_detectType(logData),
   status |-> S_detectStatus(logData),
   message |-> StrOr(logData, "message", "Processing..."),
   agent |-> S_detectAgent(logData),
   of |-> msg.n]
  @@ Pick(logData, {"progress"})

\* the catch block only writes to the console; the gauge follows every
\* progress that is not undefined
S_outcome(ld, msg, t, r) ==
  IF ld.kind = "throw"
       \/ (ld.kind = "log" /\ FieldIs(ld.logData, "message", NotAString))
    THEN [add |-> <<>>, gauge |-> <<>>]
  ELSE IF ld.kind = "null" THEN [add |-> <<>>, gauge |-> <<>>]
  ELSE [add |-> <<S_newActivity(msg, ld.logData, t, r)>>,
        gauge |-> IF Has(ld.logData, "progress")
                  THEN <<ld.logData.progress>> ELSE <<>>]

S_effect(msg, t, r) == S_outcome(S_logData(msg), msg, t, r)

(***************************************************************************)
(* EnhancedRealTimeMonitor: parsing.                                       *)
(***************************************************************************)
E_stepTypes == {"initialization", "domain_analysis", "privacy_assessment",
                "bias_detection", "relationship_mapping", "quality_planning",
                "data_generation", "quality_validation", "final_assembly",
                "completion"}

E_mapStepToType(step) == IF step \in E_stepTypes THEN step ELSE "initialization"

E_mapStepToAgent(step) ==
  CASE step = "domain_analysis" -> "Domain Expert"
    [] step = "privacy_assessment" -> "Privacy Agent"
    [] step = "bias_detection" -> "Bias Detector"
    [] step = "relationship_mapping" -> "Relationship Agent"
    [] step = "quality_planning" -> "Quality Agent"
    [] step = "data_generation" -> "Gemini AI"
    [] step = "quality_validation" -> "Quality Agent"
    [] OTHER -> "System"

E_mapPatternToType(pattern) ==
  IF includes(pattern, "domain") THEN "domain_analysis"
  ELSE IF includes(pattern, "privacy") THEN "privacy_assessment"
  ELSE IF includes(pattern, "bias") THEN "bias_detection"
  ELSE IF includes(pattern, "relationship") THEN "relationship_mapping"
  ELSE IF includes(pattern, "quality") THEN "quality_planning"
  ELSE IF includes(pattern, "generation") THEN "data_generation"
  ELSE IF includes(pattern, "validation") THEN "quality_validation"
  ELSE IF includes(pattern, "completion") THEN "completion"
  ELSE "initialization"

E_extractAgentFromMessage(message) ==
  IF includes(message, "Domain Expert") THEN "Domain Expert"
  ELSE IF includes(message, "Privacy Agent") THEN "Privacy Agent"
  ELSE IF includes(message, "Bias Detection") \/ includes(message, "Bias Detector")
    THEN "Bias Detector"
  ELSE IF includes(message, "Relationship Agent") THEN "Relationship Agent"
  ELSE IF includes(message, "Quality Agent") THEN "Quality Agent"
  ELSE IF includes(message, "GEMINI") \/ includes(message, "Gemini") THEN "Gemini AI"
  ELSE "System"

\* /<glyph>\s*<text>/i
E_glyphLine(g, text) == ReI(<<Lit(g), Many("space", 0), Lit(text)>>)
\* /<glyph>\s*<text>.*(\d+)<after>/i
E_glyphScore(g, text, after) ==
  ReI(<<Lit(g), Many("space", 0), Lit(text), Many("any", 0)>>
      \o Grp(1, <<Many("digit", 1)>>) \o after)

E_patterns == <<
  [type |-> "initialization",
   regex |-> ReI(<<Lit(G_ROBOT), Many("space", 0), Lit("Initializing"), Many("space", 1)>>
                 \o Grp(1, <<Many("any", 0)>>))],
  [type |-> "domainAnalysis", regex |-> E_glyphLine(G_BRAIN, "Domain Expert analyzing")],
  [type |-> "domainComplete",
   regex |-> ReI(<<Lit(G_CHECK), Many("space", 0), Lit("Domain Expert"), Many("any", 0),
                   Lit("detected"), Many("space", 1)>>
                 \o Grp(1, <<Many("word", 1)>>) \o <<Many("space", 1), Lit("domain")>>)],
  [type |-> "privacyStart", regex |-> E_glyphLine(G_LOCK, "Privacy Agent analyzing")],
  [type |-> "privacyComplete",
   regex |-> E_glyphScore(G_CHECK, "Privacy Agent",
                          <<Lit("%"), Many("space", 1), Lit("privacy")>>)],
  [type |-> "biasStart", regex |-> E_glyphLine(G_SCALES, "Bias Detection Agent")],
  [type |-> "biasComplete",
   regex |-> E_glyphScore(G_CHECK, "Bias Detector",
                          <<Lit("%"), Many("space", 1), Lit("bias")>>)],
  [type |-> "relationshipStart", regex |-> E_glyphLine(G_LINK, "Relationship Agent")],
  [type |-> "relationshipComplete",
   regex |-> E_glyphScore(G_CHECK, "Relationship Agent",
                          <<Many("space", 1), Lit("relationships")>>)],
  [type |-> "qualityStart", regex |-> E_glyphLine(G_TARGET, "Quality Agent")],
  [type |-> "qualityComplete",
   regex |-> ReI(<<Lit(G_CHECK), Many("space", 0), Lit("Quality Agent"), Many("any", 0),
                   Lit("optimized")>>)],
  [type |-> "generationStart",
   regex |-> ReI(<<Lit(G_ROBOT), Many("space", 0), Lit("GEMINI"), Many("any", 0),
                   Lit("Generating")>>)],
  [type |-> "generationComplete",
   regex |-> ReI(<<Lit(G_CHECK), Many("space", 0), Lit("Generated"), Many("space", 1)>>
                 \o Grp(1, <<Many("digit", 1)>>) \o <<Many("space", 1), Lit("records")>>)],
  [type |-> "validationStart",
   regex |-> E_glyphLine(G_LENS, "Quality Agent validating")],
  [type |-> "validationComplete",
   regex |-> E_glyphScore(G_CHECK, "Quality validation", <<Lit("%")>>)],
  [type |-> "completion",
   regex |-> ReI(<<Lit(G_PARTY), Many("space", 0), Many("any", 0),
                   Lit("generation completed")>>)],
  [type |-> "error",
   regex |-> ReI(<<LitAlt(<<G_CROSS, "ERROR", "Failed", "Exception">>)>>)],
  [type |-> "warning",
   regex |-> ReI(<<LitAlt(<<G_CAUTION, "WARNING", "Warn">>)>>)] >>

E_bracketProgress ==
  Re(<<Lit("[")>> \o Grp(1, <<Many("digit", 1)>>) \o <<Lit("%]")>>)

\* parseInt of a captured group that is a word: NaN is not modelled, the
\* numeric groups of the table are all \d+
E_metadata(patternName, mt) ==
  IF includes(patternName, "domain") /\ mt.m[1] # "" THEN [domain |-> mt.m[1]]
  ELSE IF includes(patternName, "privacy") /\ mt.m[1] # ""
    THEN [privacyScore |-> parseInt(mt.m[1])]
  ELSE IF includes(patternName, "bias") /\ mt.m[1] # ""
    THEN [biasScore |-> parseInt(mt.m[1])]
  ELSE IF includes(patternName, "relationship") /\ mt.m[1] # ""
    THEN [relationshipCount |-> parseInt(mt.m[1])]
  ELSE IF includes(patternName, "generation") /\ mt.m[1] # ""
    THEN [recordCount |-> parseInt(mt.m[1])]
  ELSE IF includes(patternName, "validation") /\ mt.m[1] # ""
    THEN [qualityScore |-> parseInt(mt.m[1])]
  ELSE <<>>

E_isComplete(patternName) ==
  includes(patternName, "Complete") \/ patternName = "completion"

\* const progress = progressMatch ? parseInt(progressMatch[1]) : undefined
E_progress(progressMatch) ==
  IF progressMatch.ok THEN [progress |-> parseInt(progressMatch.m[1])] ELSE <<>>

\* the record returned inside the loop for the matching pattern
E_matched(patternName, mt, message, n, t) ==
  [id |-> [pfx |-> "text", t |-> t],
   timestamp |-> t,
   type |-> E_mapPatternToType(patternName),
   status |-> IF E_isComplete(patternName) THEN "completed"
              ELSE IF includes(patternName, "error") THEN "error"
              ELSE "in_progress",
   message |-> trim(message),
   agent |-> E_extractAgentFromMessage(message),
   level |-> IF includes(patternName, "error") THEN "error"
             ELSE IF includes(patternName, "warning") THEN "warning"
             ELSE IF E_isComplete(patternName) THEN "success"
             ELSE "info",
   metadata |-> E_metadata(patternName, mt),
   of |-> n]

\* the loop body for the first matching pattern i, or the default record
E_parseAt(i, message, n, t) ==
  IF i # 0
  THEN E_matched(E_patterns[i].type, match(message, E_patterns[i].regex), message, n, t)
  ELSE [id |-> [pfx |-> "text", t |-> t],
        timestamp |-> t,
        type |-> "initialization",
        status |-> "in_progress",
        message |-> trim(message),
        agent |-> E_extractAgentFromMessage(message),
        level |-> "info",
        of |-> n]

E_parseTextMessage(message, n, t) ==
  E_parseAt(FirstMatch(E_patterns, message), message, n, t)
  @@ E_progress(match(message, E_bracketProgress))

\* <<record>> or <<>> for null
E_parseGenerationUpdate(data, n, t) ==
  IF Has(data, "step") /\ data.step # "" /\ Has(data, "progress")
  THEN <<[id |-> [pfx |-> "gen", t |-> t],
          timestamp |-> t,
          type |-> E_mapStepToType(data.step),
          status |-> IF data.progress = 100 THEN "completed" ELSE "in_progress",
          message |-> StrOr(data, "message", "Processing " \o data.step \o "..."),
          agent |-> E_mapStepToAgent(data.step),
          progress |-> data.progress,
          level |-> IF data.progress = 100 THEN "success" ELSE "info",
          metadata |-> IF Has(data, "metadata") THEN data.metadata ELSE <<>>,
          of |-> n]>>
  ELSE <<>>

E_parseAgentActivity(data, n, t) ==
  [id |-> [pfx |-> "agent", t |-> t],
   timestamp |-> t,
   type |-> StrOr(data, "type", "initialization"),
   status |-> StrOr(data, "status", "in_progress"),
   message |-> StrOr(data, "message", "Agent activity detected"),
   agent |-> StrOr(data, "agent", "Unknown Agent"),
   level |-> StrOr(data, "level", "info"),
   metadata |-> IF Has(data, "metadata") THEN data.metadata ELSE <<>>,
   of |-> n] @@ Pick(data, {"progress"})

E_parseErrorMessage(data, n, t) ==
  [id |-> [pfx |-> "error", t |-> t],
   timestamp |-> t,
   type |-> "error",
   status |-> "error",
   message |-> StrOr(data, "message", "An error occurred"),
   agent |-> StrOr(data, "agent", "System"),
   level |-> "error",
   metadata |-> Pick(data, {"error", "stack", "context"}),
   of |-> n]

\* the dispatch on the message format: <<record>> or <<>> for null
E_parsedLog(msg, t) ==
  IF msg.type = "generation_update" /\ HasData(msg)
    THEN E_parseGenerationUpdate(Fields(msg), msg.n, t)
  ELSE IF msg.type = "agent_activity" /\ HasData(msg)
    THEN <<E_parseAgentActivity(Fields(msg), msg.n, t)>>
  ELSE IF msg.type = "error" /\ HasData(msg)
    THEN <<E_parseErrorMessage(Fields(msg), msg.n, t)>>
  ELSE IF Has(msg, "data") /\ IsTextPayload(msg.data)
    THEN <<E_parseTextMessage(msg.data.text, msg.n, t)>>
  ELSE <<>>

E_outcome(parsedLog) ==
  [add |-> parsedLog,
   gauge |-> IF parsedLog # <<>> /\ Has(parsedLog[1], "progress")
                /\ parsedLog[1].progress >= 0
             THEN <<parsedLog[1].progress>> ELSE <<>>]

E_effect(msg, t, r) == E_outcome(E_parsedLog(msg, t))

(***************************************************************************)
(* The monitors as one state machine.  variant fixes which of the four     *)
(* components the instance is.                                             *)
(***************************************************************************)
Variants == {"Unified", "RealTime", "Enhanced", "Simple"}

VARIABLES
  variant,          \* which monitor component this instance is
  maxLogs,          \* the maxLogs prop (UnifiedRealTimeMonitor)
  activities,       \* activities / logs: the record list, newest first
  currentProgress,  \* the progress gauge
  isPaused,
  autoScroll,       \* UnifiedRealTimeMonitor only
  lastMessage,      \* lastMessage of useWebSocket
  activeAgents,     \* RealTimeMonitor only
  systemStatus,     \* Unified and RealTime monitors, Null elsewhere
  filterLevel,      \* filter controls of the filtered view
  filterAgent,
  searchTerm,
  now,              \* Date.now()
  rnd,              \* the next value of Math.random()
  nextId,           \* history: identity of the next message object
  accepted,         \* history: records appended since the last clear, oldest first
  pausedArrivals,   \* history: identities of the messages delivered while paused
  lastOp,           \* history: the operation that led to this state
  mounted,          \* the component is mounted
  isConnected,      \* isConnected of useWebSocket
  timerArmed,       \* the interval of the status effect exists
  inFlight,         \* health probes awaiting their response
  lastProbe,        \* history: the probe that completed last and its outcome
  generatedData,    \* DataGenerator: the rows, the data prop of the review editor
  isGenerating,
  progress,
  showReviewModal,
  generating,       \* generateData requests awaiting their response
  prompting,        \* editDataWithPrompt requests awaiting their response
  attempts,         \* history: number of requests started
  editor,           \* which review editor the page shows
  localData,        \* review editor: its copy of the rows
  reviewSearch,     \* review editor: searchTerm
  sortConfig,       \* review editor: Null or [key, direction]
  currentPage,
  selectedRows,     \* review editor: indices in the displayed table
  editingCell,      \* review editor: Null or [row, col], row an index in the displayed table
  original          \* history: the rows when the editor was opened

\* state of the status effect
pollVars == <<mounted, isConnected, timerArmed, inFlight, lastProbe>>

\* state of the DataGenerator page and of the review editor in its modal
pageVars == <<generatedData, isGenerating, progress, showReviewModal, generating,
              prompting, attempts, editor, localData, reviewSearch, sortConfig,
              currentPage, selectedRows, editingCell, original>>

\* state of the monitor, but for lastOp
monitorVars == <<variant, maxLogs, activities, currentProgress, isPaused, autoScroll,
                 lastMessage, activeAgents, systemStatus, filterLevel, filterAgent,
                 searchTerm, now, rnd, nextId, accepted, pausedArrivals,
                 mounted, isConnected, timerArmed, inFlight, lastProbe>>

vars == <<monitorVars, lastOp, pageVars>>

\* Array.prototype.slice(0, k) for k >= 0
slice(xs, k) == SubSeq(xs, 1, IF k < Len(xs) THEN k ELSE Len(xs))

\* number of records kept: maxLogs, or the literal of the component
Capacity == IF variant = "Unified" THEN maxLogs ELSE FixedCap

\* variant of Prepend for C1: the slice keeps one record too many
PrependKeepAll(rec, prev, cap) == <<rec>> \o slice(prev, cap)

\* variant of Prepend for C24: the new record goes behind the kept ones
PrependOldestFirst(rec, prev, cap) == slice(prev, cap - 1) \o <<rec>>

\* [newLog, ...prev.slice(0, capacity - 1)]
Prepend(rec, prev, cap) == <<rec>> \o slice(prev, cap - 1)

\* the body of the message effect of component v for message msg
Effect(v, msg, t, r) ==
  CASE v = "Unified" -> U_effect(msg, t, r)
    [] v = "RealTime" -> R_effect(msg, t, r)
    [] v = "Enhanced" -> E_effect(msg, t, r)
    [] v = "Simple" -> S_effect(msg, t, r)

\* variant of Gated for C2: the effect does not test isPaused
GatedOnlyNull(msg, paused) == msg = Null

\* if (!lastMessage || isPaused) return;
Gated(msg, paused) == msg = Null \/ paused

InitialStatus(v) ==
  CASE v = "Unified" ->
         [backend |-> [healthy |-> FALSE, lastCheck |-> Null, responseTime |-> 0],
          gemini |-> [status |-> "unknown", model |-> "gemini-2.0-flash-exp",
                      quotaPreserved |-> FALSE],
          agents |-> [active |-> FALSE, total |-> 5, operational |-> 0],
          websockets |-> [connected |-> FALSE, status |-> "disconnected"]]
    [] v = "RealTime" ->
         [backend |-> [healthy |-> FALSE, lastCheck |-> Null, responseTime |-> 0],
          gemini |-> [status |-> "offline", model |-> "gemini-2.0-flash-exp"],
          agents |-> [active |-> FALSE, total |-> 5, operational |-> 0],
          websockets |-> [connected |-> FALSE, status |-> "disconnected"]]
    [] OTHER -> Null

\* the monitors with a status effect
HasPoller(v) == v \in {"Unified", "RealTime"}

\* a call of checkSystemStatus that awaits ApiService.healthCheck():
\* connected is the isConnected its closure holds, stale tells that the
\* effect it belongs to has been cleaned up
Probe(connected, stale) == [connected |-> connected, stale |-> stale]

MonitorInit(vs) ==
  /\ variant \in vs
  /\ maxLogs \in IF variant = "Unified" THEN 1..MaxCap ELSE {FixedCap}
  /\ activities = <<>>
  /\ currentProgress = 0
  /\ isPaused = FALSE
  /\ autoScroll = TRUE
  /\ lastMessage = Null
  /\ activeAgents = {}
  /\ systemStatus = InitialStatus(variant)
  /\ filterLevel = "all"
  /\ filterAgent = "all"
  /\ searchTerm = ""
  /\ now = 0
  /\ rnd = 0
  /\ nextId = 1
  /\ accepted = <<>>
  /\ pausedArrivals = {}
  /\ lastOp = "mount"
  /\ mounted = TRUE
  /\ isConnected = FALSE
  /\ timerArmed = HasPoller(variant)
  /\ inFlight = IF HasPoller(variant) THEN {Probe(FALSE, FALSE)} ELSE {}
  /\ lastProbe = Null

Editors == {"DataReviewEditor", "SimpleDataReviewEditor", "UnifiedDataReviewEditor"}

\* the DataGenerator page before its first request; the editor state is
\* that of an editor that is not shown
PageInit(eds) ==
  /\ editor \in eds
  /\ generatedData = <<>>
  /\ isGenerating = FALSE
  /\ progress = 0
  /\ showReviewModal = FALSE
  /\ generating = 0
  /\ prompting = 0
  /\ attempts = 0
  /\ localData = <<>>
  /\ reviewSearch = ""
  /\ sortConfig = Null
  /\ currentPage = 1
  /\ selectedRows = {}
  /\ editingCell = Null
  /\ original = <<>>

InitFor(vs) == MonitorInit(vs) /\ PageInit({"DataReviewEditor"})

Init == InitFor(Variants)

(***************************************************************************)
(* Inbound messages delivered by the transport in the model.               *)
(***************************************************************************)
Ev(type, data) == [type |-> type, data |-> data]
RawLine(text) == Ev("raw_message", [message |-> text])

\* structured update with a progress: every component appends a record
EvDomain40 ==
  Ev("generation_update",
     [step |-> "domain_analysis", progress |-> 40, message |-> "Analyzing domain"])
\* structured update carrying the error signal progress = -1
EvFailed ==
  Ev("generation_update",
     [step |-> "data_generation", progress |-> -1, message |-> "Generation failed"])
\* structured update without progress
EvStarting == Ev("generation_update", [message |-> "Starting pipeline"])
\* free-text line with a bracketed progress
EvDone100 == RawLine("[100%] Completion: all done")
\* plain string payload, read by EnhancedRealTimeMonitor only
EvText == Ev("log", [text |-> G_CHECK \o " Generated 10 records"])
\* a message field that is not a string
EvBadMessage == Ev("log", [message |-> NotAString])

CoreEvents == {EvDomain40, EvFailed, EvStarting, EvDone100, EvText, EvBadMessage}

\* free-text lines for the pattern tables
LineDomain40 == "[40%] Domain Analysis: scanning columns"
LineProgressError == "[10%] Init: Error: disk full"
LineSystemFailed == "System check: Failed: no route"
LineError == "Error: connection refused"
LinePlain == "warming up"

ParseEvents ==
  {RawLine(LineDomain40), RawLine(LineProgressError), RawLine(LineSystemFailed),
   RawLine(LineError), RawLine(LinePlain)}

\* structured update of the privacy step
EvPrivacy30 ==
  Ev("generation_update",
     [step |-> "privacy_assessment", progress |-> 30,
      message |-> "Privacy score computed"])

ViewEvents == {EvPrivacy30, EvDomain40, EvFailed}

\* structured update whose message names no stage and no agent
Update(fields) == Ev("generation_update", fields @@ [message |-> "Batch update"])

\* structured update whose message names an agent
EvExpert40 ==
  Ev("generation_update",
     [progress |-> 40, level |-> "error", message |-> "Domain Expert retrying"])

\* a plain string payload that names nothing
EvTextPlain == Ev("log", [text |-> LinePlain])

\* messages that differ in progress, status marker, level and type
ClassifyEvents ==
  {EvExpert40, EvTextPlain, RawLine(LinePlain),
   Update([progress |-> 40, level |-> "error"]),
   Update([level |-> "success"]),
   Update([progress |-> -1, level |-> "warning"]),
   Update([progress |-> -1]),
   Update([progress |-> 0]),
   Update([progress |-> 100]),
   Update([progress |-> 100, status |-> G_CROSS]),
   Update([progress |-> 100, status |-> M_CROSS]),
   Update([status |-> G_CHECK]), Update([status |-> M_CHECK]),
   Update([status |-> G_CROSS]), Update([status |-> M_CROSS]),
   Update([status |-> G_CAUTION]), Update([status |-> M_CAUTION]),
   Update([type |-> "progress", progress |-> 40]),
   Update([type |-> "error"])}

\* a string payload of white space
EvBlankText == Ev("log", [text |-> "  "])
\* a bracketed progress of three digits
Line250 == "[250%] step: text"

\* messages at the edges of the record fields
FieldEvents ==
  {EvBlankText, RawLine(Line250), Update([progress |-> 250]), EvDomain40, EvBadMessage}

AllEvents ==
  CoreEvents \cup ParseEvents \cup ViewEvents \cup ClassifyEvents \cup FieldEvents

\* the outcome of the message effect per component and message, computed
\* once; the identity of the message, the clock and the random suffix only
\* enter the fields id, timestamp and of, which Stamp fills in
EffectTable ==
  [v \in Variants |-> [e \in AllEvents |-> Effect(v, e @@ [n |-> 0], 0, 0)]]

StampId(id, t, r) ==
  IF Has(id, "r") THEN [id EXCEPT !.t = t, !.r = r] ELSE [id EXCEPT !.t = t]

Stamp(rec, n, t, r) ==
  [rec EXCEPT !.id = StampId(rec.id, t, r), !.timestamp = t, !.of = n]

StampOutcome(out, n, t, r) ==
  [add |-> IF out.add = <<>> THEN <<>> ELSE <<Stamp(out.add[1], n, t, r)>>,
   gauge |-> out.gauge]

\* Effect(v, msg, t, r), read from the table
EffectOf(v, msg, t, r) ==
  StampOutcome(EffectTable[v][[type |-> msg.type, data |-> msg.data]], msg.n, t, r)

(***************************************************************************)
(* The message effect and the operations of the monitor.                   *)
(***************************************************************************)
\* Math.random() after a draw: a value that is the suffix of no id in the
\* list (the least such value, the values being interchangeable)
NextRandom(list) ==
  CHOOSE k \in 0..Len(list) :
    /\ \A i \in 1..Len(list) : ~(Has(list[i].id, "r") /\ list[i].id.r = k)
    /\ \A j \in 0..(k - 1) :
         \E i \in 1..Len(list) : Has(list[i].id, "r") /\ list[i].id.r = j

\* RealTimeMonitor tracks the agent of an appended record
Tracked(out) ==
  variant = "RealTime" /\ out.add # <<>> /\ out.add[1].agent # "System"

\* the state updates of one run of the effect body with outcome out
ApplyOutcome(out) ==
  /\ activities' = IF out.add = <<>> THEN activities
                   ELSE Prepend(out.add[1], activities, Capacity)
  /\ accepted' = accepted \o out.add
  /\ currentProgress' = IF out.gauge = <<>> THEN currentProgress ELSE out.gauge[1]
  /\ activeAgents' = IF Tracked(out) THEN activeAgents \cup {out.add[1].agent}
                     ELSE activeAgents
  /\ systemStatus' =
       IF Tracked(out)
       THEN [systemStatus EXCEPT
               !.agents = [f \in DOMAIN systemStatus.agents \cup {"currentAgent"} |->
                             IF f = "currentAgent" THEN out.add[1].agent
                             ELSE systemStatus.agents[f]]]
       ELSE systemStatus
  /\ rnd' = IF out.add # <<>> /\ Has(out.add[1].id, "r") THEN NextRandom(activities')
            ELSE rnd

\* One run of the message effect with the values of the render it belongs
\* to: paused is the isPaused of that render.
RunMessageEffect(msg, paused) ==
  IF Gated(msg, paused)
  THEN UNCHANGED <<activities, currentProgress, activeAgents, systemStatus, accepted,
                   rnd>>
  ELSE ApplyOutcome(EffectOf(variant, msg, now, rnd))

\* the transport delivers message e: lastMessage changes, the effect runs
Receive(e) ==
  /\ mounted
  /\ nextId <= MaxEvents
  /\ Len(accepted) < MaxAccepted
  /\ lastMessage' = e @@ [n |-> nextId]
  /\ nextId' = nextId + 1
  /\ pausedArrivals' = IF isPaused THEN pausedArrivals \cup {nextId} ELSE pausedArrivals
  /\ RunMessageEffect(lastMessage', isPaused)
  /\ lastOp' = "receive"
  /\ UNCHANGED <<pollVars, pageVars>>
  /\ UNCHANGED <<variant, maxLogs, isPaused, autoScroll, filterLevel, filterAgent,
                 searchTerm, now>>

\* onClick={() => setIsPaused(!isPaused)}: isPaused is a dependency of the
\* message effect, which therefore runs again with the unchanged lastMessage
TogglePause ==
  /\ Len(accepted) < MaxAccepted
  /\ isPaused' = ~isPaused
  /\ RunMessageEffect(lastMessage, isPaused')
  /\ lastOp' = IF isPaused THEN "resume" ELSE "pause"
  /\ UNCHANGED <<pollVars, pageVars>>
  /\ UNCHANGED <<variant, maxLogs, autoScroll, lastMessage, filterLevel, filterAgent,
                 searchTerm, now, nextId, pausedArrivals>>

\* onClick={() => setAutoScroll(!autoScroll)}: autoScroll is a dependency of
\* the message effect of UnifiedRealTimeMonitor
ToggleAutoScroll ==
  /\ variant = "Unified"
  /\ Len(accepted) < MaxAccepted
  /\ autoScroll' = ~autoScroll
  /\ RunMessageEffect(lastMessage, isPaused)
  /\ lastOp' = "autoscroll"
  /\ UNCHANGED <<pollVars, pageVars>>
  /\ UNCHANGED <<variant, maxLogs, isPaused, lastMessage, filterLevel, filterAgent,
                 searchTerm, now, nextId, pausedArrivals>>

\* clearLogs, and the Clear button of EnhancedRealTimeMonitor
Clear ==
  /\ activities' = <<>>
  /\ currentProgress' = IF variant = "Enhanced" THEN currentProgress ELSE 0
  /\ activeAgents' = {}
  /\ accepted' = <<>>
  /\ lastOp' = "clear"
  /\ UNCHANGED <<pollVars, pageVars>>
  /\ UNCHANGED <<variant, maxLogs, isPaused, autoScroll, lastMessage, systemStatus,
                 filterLevel, filterAgent, searchTerm, now, rnd, nextId, pausedArrivals>>

Next ==
  \/ \E e \in CoreEvents : Receive(e)
  \/ TogglePause
  \/ ToggleAutoScroll
  \/ Clear

Spec == Init /\ [][Next]_vars

(***************************************************************************)
(* Free-text normalization on its own: the monitors with a pattern table   *)
(* receive the lines of ParseEvents.                                       *)
(***************************************************************************)
InitParse == InitFor({"Unified", "RealTime"})

NextParse ==
  \/ \E e \in ParseEvents : Receive(e)
  \/ Clear

SpecParse == InitParse /\ [][NextParse]_vars

(***************************************************************************)
(* The filtered view of the monitors that offer filter controls.           *)
(***************************************************************************)
\* variant of U_includesTerm for C10: the search compares case-sensitively
U_includesTermExact(text) == includes(text, searchTerm)

\* text.toLowerCase().includes(searchTerm.toLowerCase())
U_includesTerm(text) == includes(toLowerCase(text), toLowerCase(searchTerm))

\* the predicate of filteredActivities (UnifiedRealTimeMonitor)
U_keeps(activity) ==
  LET levelMatch == filterLevel = "all" \/ activity.level = filterLevel
      agentMatch == filterAgent = "all" \/ activity.agent = filterAgent
      searchMatch == \/ searchTerm = ""
                     \/ U_includesTerm(activity.message)
                     \/ (Has(activity, "agent") /\ U_includesTerm(activity.agent))
  IN levelMatch /\ agentMatch /\ searchMatch

\* activities.filter(...): SelectSeq is Array.prototype.filter
filteredActivities == SelectSeq(activities, U_keeps)

\* the predicate of filteredLogs (EnhancedRealTimeMonitor); selectedAgent is
\* the variable filterAgent
E_keeps(log) ==
  LET matchesSearch == \/ searchTerm = ""
                       \/ includes(toLowerCase(log.message), toLowerCase(searchTerm))
                       \/ includes(toLowerCase(log.agent), toLowerCase(searchTerm))
      matchesAgent == filterAgent = "all" \/ log.agent = filterAgent
  IN matchesSearch /\ matchesAgent

filteredLogs == SelectSeq(activities, E_keeps)

\* the list the component renders from
FilteredView == IF variant = "Unified" THEN filteredActivities ELSE filteredLogs

\* the agents offered by the agent selector
uniqueAgents == {activities[i].agent : i \in DOMAIN activities}

\* text typed into the search box
SearchTerms == {"", "score", "EXPERT"}
\* items of the level selector of UnifiedRealTimeMonitor
FilterLevels == {"all", "info", "success", "warning", "error"}

SetSearchTerm(s) ==
  /\ s # searchTerm
  /\ searchTerm' = s
  /\ lastOp' = "filter"
  /\ UNCHANGED <<pollVars, pageVars>>
  /\ UNCHANGED <<variant, maxLogs, activities, currentProgress, isPaused, autoScroll,
                 lastMessage, activeAgents, systemStatus, filterLevel, filterAgent,
                 now, rnd, nextId, accepted, pausedArrivals>>

SetFilterLevel(l) ==
  /\ variant = "Unified"
  /\ l # filterLevel
  /\ filterLevel' = l
  /\ lastOp' = "filter"
  /\ UNCHANGED <<pollVars, pageVars>>
  /\ UNCHANGED <<variant, maxLogs, activities, currentProgress, isPaused, autoScroll,
                 lastMessage, activeAgents, systemStatus, filterAgent, searchTerm,
                 now, rnd, nextId, accepted, pausedArrivals>>

SetFilterAgent(a) ==
  /\ a # filterAgent
  /\ filterAgent' = a
  /\ lastOp' = "filter"
  /\ UNCHANGED <<pollVars, pageVars>>
  /\ UNCHANGED <<variant, maxLogs, activities, currentProgress, isPaused, autoScroll,
                 lastMessage, activeAgents, systemStatus, filterLevel, searchTerm,
                 now, rnd, nextId, accepted, pausedArrivals>>

InitView == InitFor({"Unified", "Enhanced"})

NextView ==
  \/ \E e \in ViewEvents : Receive(e)
  \/ \E s \in SearchTerms : SetSearchTerm(s)
  \/ \E l \in FilterLevels : SetFilterLevel(l)
  \/ \E a \in uniqueAgents \cup {"all"} : SetFilterAgent(a)

SpecView == InitView /\ [][NextView]_vars

(***************************************************************************)
(* The status effect of UnifiedRealTimeMonitor and RealTimeMonitor:        *)
(* checkSystemStatus runs when the effect runs and on every tick of its    *)
(* interval; each call awaits ApiService.healthCheck().                    *)
(***************************************************************************)
\* responses of ApiService.healthCheck()
RespReady ==
  [healthy |-> TRUE,
   data |-> [services |->
               [gemini |-> [status |-> "ready", model |-> "gemini-pro",
                            quota_preserved |-> TRUE, tokens_used |-> 7],
                agents |-> "active",
                websockets |-> "ok"]]]
RespStarting ==
  [healthy |-> TRUE, data |-> [services |-> [gemini |-> [status |-> "starting"]]]]
RespDown == [healthy |-> FALSE]

HealthResponses == {RespReady, RespStarting, RespDown}

\* values of Date.now() - startTime, in milliseconds
Latencies == {5, 120}

\* healthResponse.data?.services, {} when undefined
Services(resp) ==
  IF Has(resp, "data") /\ Has(resp.data, "services") THEN resp.data.services ELSE <<>>

\* healthResponse.data?.services?.gemini, {} when undefined
GeminiOf(resp) ==
  IF Has(Services(resp), "gemini") THEN Services(resp).gemini ELSE <<>>

\* the agents field both monitors build
AgentsStatus(resp) ==
  [active |-> FieldIs(Services(resp), "agents", "active"),
   total |-> 5,
   operational |-> IF FieldIs(Services(resp), "agents", "active") THEN 5 ELSE 0]

\* newStatus of UnifiedRealTimeMonitor
U_newStatus(resp, responseTime, connected, t) ==
  [backend |-> [healthy |-> resp.healthy, lastCheck |-> [time |-> t],
                responseTime |-> responseTime],
   gemini |-> [status |-> IF FieldIs(GeminiOf(resp), "status", "ready")
                          THEN "online" ELSE "offline",
               model |-> StrOr(GeminiOf(resp), "model", "gemini-2.0-flash-exp"),
               quotaPreserved |-> IF Has(GeminiOf(resp), "quota_preserved")
                                  THEN GeminiOf(resp).quota_preserved ELSE FALSE],
   agents |-> AgentsStatus(resp),
   websockets |-> [connected |-> connected,
                   status |-> StrOr(Services(resp), "websockets", "unknown")]]

\* the updater of RealTimeMonitor on success: every field of prev is
\* overwritten
R_newStatus(resp, responseTime, connected, t) ==
  [backend |-> [healthy |-> resp.healthy, lastCheck |-> [time |-> t],
                responseTime |-> responseTime],
   gemini |-> [status |-> IF FieldIs(GeminiOf(resp), "status", "ready") THEN "online"
                          ELSE IF FieldIs(GeminiOf(resp), "status", "starting")
                            THEN "starting"
                          ELSE "offline",
               model |-> StrOr(GeminiOf(resp), "model", "gemini-2.0-flash-exp")]
              @@ Opt("tokensUsed", GeminiOf(resp).tokens_used,
                     Has(GeminiOf(resp), "tokens_used")),
   agents |-> AgentsStatus(resp),
   websockets |-> [connected |-> connected,
                   status |-> StrOr(Services(resp), "websockets", "unknown")]]

\* variant of NewStatus for C15: the backend is reported healthy whatever
\* the probe returned
NewStatusAlwaysHealthy(v, resp, responseTime, connected, t) ==
  IF v = "Unified"
  THEN U_newStatus([resp EXCEPT !.healthy = TRUE], responseTime, connected, t)
  ELSE R_newStatus([resp EXCEPT !.healthy = TRUE], responseTime, connected, t)

NewStatus(v, resp, responseTime, connected, t) ==
  IF v = "Unified" THEN U_newStatus(resp, responseTime, connected, t)
  ELSE R_newStatus(resp, responseTime, connected, t)

\* variant of FailedStatus for C14: the catch block starts from the initial
\* status instead of prev
FailedStatusReset(prev, t) ==
  [InitialStatus(variant) EXCEPT
     !.backend = [healthy |-> FALSE, lastCheck |-> [time |-> t], responseTime |-> 0]]

\* the updater of the catch block
FailedStatus(prev, t) ==
  [prev EXCEPT !.backend = [healthy |-> FALSE, lastCheck |-> [time |-> t], responseTime |-> 0]]

\* the cleanup of the status effect does not reach the calls in flight
Orphaned(probes) == {Probe(p.connected, TRUE) : p \in probes}

\* the interval fires: checkSystemStatus starts
Tick ==
  /\ mounted
  /\ timerArmed
  /\ inFlight' = inFlight \cup {Probe(isConnected, FALSE)}
  /\ lastOp' = "tick"
  /\ UNCHANGED pageVars
  /\ UNCHANGED <<variant, maxLogs, activities, currentProgress, isPaused, autoScroll,
                 lastMessage, activeAgents, systemStatus, filterLevel, filterAgent,
                 searchTerm, now, rnd, nextId, accepted, pausedArrivals,
                 mounted, isConnected, timerArmed, lastProbe>>

\* healthCheck resolves with resp after lat milliseconds; a state update of
\* a component that is no longer mounted is dropped
ProbeSucceeds(p, resp, lat) ==
  /\ p \in inFlight
  /\ inFlight' = inFlight \ {p}
  /\ systemStatus' = IF mounted THEN NewStatus(variant, resp, lat, p.connected, now)
                     ELSE systemStatus
  /\ lastProbe' = [probe |-> p, ok |-> TRUE, healthy |-> resp.healthy]
  /\ lastOp' = "probe_ok"
  /\ UNCHANGED pageVars
  /\ UNCHANGED <<variant, maxLogs, activities, currentProgress, isPaused, autoScroll,
                 lastMessage, activeAgents, filterLevel, filterAgent,
                 searchTerm, now, rnd, nextId, accepted, pausedArrivals,
                 mounted, isConnected, timerArmed>>

\* healthCheck rejects (network error, timeout)
ProbeFails(p) ==
  /\ p \in inFlight
  /\ inFlight' = inFlight \ {p}
  /\ systemStatus' = IF mounted THEN FailedStatus(systemStatus, now) ELSE systemStatus
  /\ lastProbe' = [probe |-> p, ok |-> FALSE, healthy |-> FALSE]
  /\ lastOp' = "probe_failed"
  /\ UNCHANGED pageVars
  /\ UNCHANGED <<variant, maxLogs, activities, currentProgress, isPaused, autoScroll,
                 lastMessage, activeAgents, filterLevel, filterAgent,
                 searchTerm, now, rnd, nextId, accepted, pausedArrivals,
                 mounted, isConnected, timerArmed>>

\* isConnected changes: the cleanup clears the interval, the effect runs
\* again, calls checkSystemStatus and sets a new interval
ConnectionChanges ==
  /\ mounted
  /\ HasPoller(variant)
  /\ isConnected' = ~isConnected
  /\ inFlight' = Orphaned(inFlight) \cup {Probe(isConnected', FALSE)}
  /\ timerArmed' = TRUE
  /\ lastOp' = "connection"
  /\ UNCHANGED pageVars
  /\ UNCHANGED <<variant, maxLogs, activities, currentProgress, isPaused, autoScroll,
                 lastMessage, activeAgents, systemStatus, filterLevel, filterAgent,
                 searchTerm, now, rnd, nextId, accepted, pausedArrivals,
                 mounted, lastProbe>>

\* the component unmounts: the cleanup clears the interval
Unmount ==
  /\ mounted
  /\ mounted' = FALSE
  /\ timerArmed' = FALSE
  /\ inFlight' = Orphaned(inFlight)
  /\ lastOp' = "unmount"
  /\ UNCHANGED pageVars
  /\ UNCHANGED <<variant, maxLogs, activities, currentProgress, isPaused, autoScroll,
                 lastMessage, activeAgents, systemStatus, filterLevel, filterAgent,
                 searchTerm, now, rnd, nextId, accepted, pausedArrivals,
                 isConnected, lastProbe>>

InitPoll == InitFor({"Unified", "RealTime"})

NextPoll ==
  \/ Tick
  \/ \E p \in inFlight : \E resp \in HealthResponses : \E lat \in Latencies :
       ProbeSucceeds(p, resp, lat)
  \/ \E p \in inFlight : ProbeFails(p)
  \/ ConnectionChanges
  \/ Unmount

SpecPoll == InitPoll /\ [][NextPoll]_vars

\* setInterval keeps firing while the interval is set
SpecPollFair == SpecPoll /\ WF_vars(Tick)

(***************************************************************************)
(* The monitors that classify by detect functions or default parsing,      *)
(* receiving messages that differ in progress, marker, level and type.     *)
(***************************************************************************)
InitClassify == InitFor({"Unified", "RealTime", "Enhanced"})

NextClassify ==
  \/ \E e \in ClassifyEvents : Receive(e)
  \/ Clear

SpecClassify == InitClassify /\ [][NextClassify]_vars

(***************************************************************************)
(* The message effect and the status effect of one monitor together.       *)
(***************************************************************************)
NextBoth ==
  \/ Receive(EvExpert40)
  \/ NextPoll

SpecBoth == InitPoll /\ [][NextBoth]_vars

(***************************************************************************)
(* All monitors with messages at the edges of the record fields, and the   *)
(* clock moving between messages.                                          *)
(***************************************************************************)
\* Date.now() moves to the next millisecond
ClockAdvances ==
  /\ now < MaxNow
  /\ now' = now + 1
  /\ lastOp' = "clock"
  /\ UNCHANGED <<pollVars, pageVars>>
  /\ UNCHANGED <<variant, maxLogs, activities, currentProgress, isPaused, autoScroll,
                 lastMessage, activeAgents, systemStatus, filterLevel, filterAgent,
                 searchTerm, rnd, nextId, accepted, pausedArrivals>>

NextFields ==
  \/ \E e \in FieldEvents : Receive(e)
  \/ Clear
  \/ ClockAdvances

SpecFields == Init /\ [][NextFields]_vars

(***************************************************************************)
(* The DataGenerator page and the review editor in its modal.  A row has   *)
(* one column, name.  generationMetadata and qualityMetrics are only       *)
(* displayed and are left out.                                             *)
(***************************************************************************)
Row(v) == [name |-> v]

\* response.data.synthetic_data || []
SyntheticData == {<<>>, <<Row("bob"), Row("al")>>}

\* the values of the cells in the order of String comparison
ValueOrder == <<"al", "bob", "zed">>
Rank(v) == CHOOSE i \in 1..Len(ValueOrder) : ValueOrder[i] = v

\* what the user types into a cell and into the search box
EditValues == {"zed"}
ReviewTerms == {"", "A"}

\* Object.values(row).some(value => String(value).toLowerCase().includes(...))
RowMatches(i) ==
  \E f \in DOMAIN localData[i] :
    includes(toLowerCase(localData[i][f]), toLowerCase(reviewSearch))

\* the indices in localData of the rows that pass the search filter
FilteredRows == SelectSeq([i \in 1..Len(localData) |-> i], RowMatches)

\* the comparator of filtered.sort: row i goes before row j
SortsBefore(i, j) ==
  LET a == Rank(localData[i].name)
      b == Rank(localData[j].name)
  IN IF a = b THEN i < j
     ELSE IF sortConfig.direction = "asc" THEN a < b ELSE b < a

\* filtered.sort(...): the row in place k has k - 1 rows before it
SortRows(rows) ==
  IF sortConfig = Null THEN rows
  ELSE [k \in 1..Len(rows) |->
          CHOOSE i \in {rows[n] : n \in 1..Len(rows)} :
            Cardinality({j \in {rows[n] : n \in 1..Len(rows)} : SortsBefore(j, i)}) = k - 1]

\* filteredAndSortedData, as indices in localData
SortedRows == SortRows(FilteredRows)

\* slice((currentPage - 1) * itemsPerPage, currentPage * itemsPerPage)
Paginate(rows) ==
  SubSeq(rows, (currentPage - 1) * ItemsPerPage + 1,
         IF currentPage * ItemsPerPage < Len(rows) THEN currentPage * ItemsPerPage
         ELSE Len(rows))

\* the rows of the displayed table, as indices in localData: filteredData
\* of SimpleDataReviewEditor, paginatedData of the other two
DisplayedRows ==
  IF editor = "SimpleDataReviewEditor" THEN FilteredRows ELSE Paginate(SortedRows)

\* Math.ceil(filteredAndSortedData.length / itemsPerPage)
totalPages == (Len(SortedRows) + ItemsPerPage - 1) \div ItemsPerPage

\* the index in localData that a handler uses for row r of the displayed
\* table; 0 stands for the -1 of indexOf
RowIndex(r) ==
  CASE editor = "SimpleDataReviewEditor" -> r
    [] editor = "DataReviewEditor" -> (currentPage - 1) * ItemsPerPage + r
    [] editor = "UnifiedDataReviewEditor" ->
         IF r \in 1..Len(DisplayedRows) THEN DisplayedRows[r] ELSE 0

\* the data prop of the editor changes to rows: useEffect(() =>
\* setLocalData(data), [data])
DataPropBecomes(rows) ==
  /\ localData' = IF showReviewModal THEN rows ELSE localData
  /\ original' = IF showReviewModal THEN rows ELSE original

\* setLocalData(updatedData); onDataUpdate(updatedData)
Update2(updatedData) ==
  /\ localData' = updatedData
  /\ generatedData' = updatedData

\* handleGenerate up to its await; the open modal covers the button
Generate ==
  /\ ~isGenerating
  /\ ~showReviewModal
  /\ attempts < MaxAttempts
  /\ isGenerating' = TRUE
  /\ progress' = 0
  /\ generatedData' = <<>>
  /\ generating' = generating + 1
  /\ attempts' = attempts + 1
  /\ lastOp' = "generate"
  /\ UNCHANGED <<monitorVars, showReviewModal, prompting, editor, localData,
                 reviewSearch, sortConfig, currentPage, selectedRows, editingCell,
                 original>>

\* handleGenerate after its await: response.success && response.data
GenerationSucceeds(rows) ==
  /\ generating > 0
  /\ generating' = generating - 1
  /\ generatedData' = rows
  /\ DataPropBecomes(rows)
  /\ progress' = 100
  /\ isGenerating' = FALSE
  /\ lastOp' = "generated"
  /\ UNCHANGED <<monitorVars, showReviewModal, prompting, attempts, editor,
                 reviewSearch, sortConfig, currentPage, selectedRows, editingCell>>

\* handleGenerate after its await: the response reports a failure, or
\* generateData threw; both end in the catch block
GenerationFails ==
  /\ generating > 0
  /\ generating' = generating - 1
  /\ isGenerating' = FALSE
  /\ lastOp' = "generate_failed"
  /\ UNCHANGED <<monitorVars, generatedData, progress, showReviewModal, prompting,
                 attempts, editor, localData, reviewSearch, sortConfig, currentPage,
                 selectedRows, editingCell, original>>

\* handlePromptSubmit of the editor calls handlePromptEdit, up to its await
PromptSubmit ==
  /\ showReviewModal
  /\ attempts < MaxAttempts
  /\ prompting' = prompting + 1
  /\ attempts' = attempts + 1
  /\ lastOp' = "prompt"
  /\ UNCHANGED <<monitorVars, generatedData, isGenerating, progress, showReviewModal,
                 generating, editor, localData, reviewSearch, sortConfig, currentPage,
                 selectedRows, editingCell, original>>

\* handlePromptEdit after its await: response.success && response.data
PromptSucceeds(rows) ==
  /\ prompting > 0
  /\ prompting' = prompting - 1
  /\ generatedData' = rows
  /\ DataPropBecomes(rows)
  /\ lastOp' = "prompted"
  /\ UNCHANGED <<monitorVars, isGenerating, progress, showReviewModal, generating,
                 attempts, editor, reviewSearch, sortConfig, currentPage, selectedRows,
                 editingCell>>

\* handlePromptEdit after its await: the catch block
PromptFails ==
  /\ prompting > 0
  /\ prompting' = prompting - 1
  /\ lastOp' = "prompt_failed"
  /\ UNCHANGED <<monitorVars, generatedData, isGenerating, progress, showReviewModal,
                 generating, attempts, editor, localData, reviewSearch, sortConfig,
                 currentPage, selectedRows, editingCell, original>>

\* Review & Edit: the editor mounts with useState(data)
ShowReview ==
  /\ generatedData # <<>>
  /\ ~showReviewModal
  /\ showReviewModal' = TRUE
  /\ localData' = generatedData
  /\ original' = generatedData
  /\ lastOp' = "review"
  /\ UNCHANGED <<monitorVars, generatedData, isGenerating, progress, generating,
                 prompting, attempts, editor, reviewSearch, sortConfig, currentPage,
                 selectedRows, editingCell>>

\* setShowReviewModal(false): the editor unmounts and its state is gone
CloseReview ==
  /\ showReviewModal
  /\ showReviewModal' = FALSE
  /\ localData' = <<>>
  /\ reviewSearch' = ""
  /\ sortConfig' = Null
  /\ currentPage' = 1
  /\ selectedRows' = {}
  /\ editingCell' = Null
  /\ original' = <<>>
  /\ lastOp' = "close"
  /\ UNCHANGED <<monitorVars, generatedData, isGenerating, progress, generating,
                 prompting, attempts, editor>>

\* handleCellEdit(rowIndex, ...) for row r of the displayed table
CellEdit(r) ==
  /\ showReviewModal
  /\ r \in 1..Len(DisplayedRows)
  /\ editingCell' = [row |-> r, col |-> "name"]
  /\ lastOp' = "cell_edit"
  /\ UNCHANGED <<monitorVars, generatedData, isGenerating, progress, showReviewModal,
                 generating, prompting, attempts, editor, localData, reviewSearch,
                 sortConfig, currentPage, selectedRows, original>>

\* handleCellSave with editValue v, from the input in the cell being edited,
\* which is there when its row is displayed.  updatedData[index] is undefined for an
\* index past the end and the assignment throws; UnifiedDataReviewEditor
\* skips the update for index -1
CellSave(v) ==
  /\ showReviewModal
  /\ editingCell # Null
  /\ editingCell.row \in 1..Len(DisplayedRows)
  /\ IF RowIndex(editingCell.row) \in 1..Len(localData)
     THEN /\ Update2([localData EXCEPT ![RowIndex(editingCell.row)].name = v])
          /\ editingCell' = Null
     ELSE /\ UNCHANGED <<localData, generatedData>>
          /\ editingCell' = IF editor = "UnifiedDataReviewEditor" THEN Null
                            ELSE editingCell
  /\ lastOp' = "cell_save"
  /\ UNCHANGED <<monitorVars, isGenerating, progress, showReviewModal, generating,
                 prompting, attempts, editor, reviewSearch, sortConfig, currentPage,
                 selectedRows, original>>

\* toggleRowSelection / handleSelectRow for row r of the displayed table
SelectRow(r) ==
  /\ showReviewModal
  /\ editor # "DataReviewEditor"
  /\ r \in 1..Len(DisplayedRows)
  /\ selectedRows' = IF r \in selectedRows THEN selectedRows \ {r}
                     ELSE selectedRows \cup {r}
  /\ lastOp' = "select"
  /\ UNCHANGED <<monitorVars, generatedData, isGenerating, progress, showReviewModal,
                 generating, prompting, attempts, editor, localData, reviewSearch,
                 sortConfig, currentPage, editingCell, original>>

\* the indices in localData that the delete handler removes
RowsToDelete ==
  IF editor = "SimpleDataReviewEditor" THEN selectedRows
  ELSE {RowIndex(d) : d \in selectedRows} \ {0}

\* handleDeleteRows of SimpleDataReviewEditor, handleBulkDelete of
\* UnifiedDataReviewEditor
DeleteRows ==
  /\ showReviewModal
  /\ editor # "DataReviewEditor"
  /\ selectedRows # {}
  /\ Update2(SelectSeq([i \in 1..Len(localData) |->
                          IF i \in RowsToDelete THEN Null ELSE localData[i]],
                       LAMBDA row : row # Null))
  /\ selectedRows' = {}
  /\ lastOp' = "delete"
  /\ UNCHANGED <<monitorVars, isGenerating, progress, showReviewModal, generating,
                 prompting, attempts, editor, reviewSearch, sortConfig, currentPage,
                 editingCell, original>>

\* handleReset, resetData and the Reset button of DataReviewEditor:
\* setLocalData(data); onDataUpdate(data)
Reset ==
  /\ showReviewModal
  /\ Update2(generatedData)
  /\ selectedRows' = {}
  /\ reviewSearch' = IF editor = "UnifiedDataReviewEditor" THEN "" ELSE reviewSearch
  /\ sortConfig' = IF editor = "UnifiedDataReviewEditor" THEN Null ELSE sortConfig
  /\ currentPage' = IF editor = "UnifiedDataReviewEditor" THEN 1 ELSE currentPage
  /\ lastOp' = "reset"
  /\ UNCHANGED <<monitorVars, isGenerating, progress, showReviewModal, generating,
                 prompting, attempts, editor, editingCell, original>>

\* the search box: setSearchTerm(e.target.value)
SetReviewSearch(term) ==
  /\ showReviewModal
  /\ term # reviewSearch
  /\ reviewSearch' = term
  /\ lastOp' = "search"
  /\ UNCHANGED <<monitorVars, generatedData, isGenerating, progress, showReviewModal,
                 generating, prompting, attempts, editor, localData, sortConfig,
                 currentPage, selectedRows, editingCell, original>>

\* handleSort on the column: ascending, descending, none
Sort ==
  /\ showReviewModal
  /\ editor # "SimpleDataReviewEditor"
  /\ sortConfig' = IF sortConfig = Null THEN [key |-> "name", direction |-> "asc"]
                   ELSE IF sortConfig.direction = "asc"
                     THEN [key |-> "name", direction |-> "desc"]
                   ELSE Null
  /\ lastOp' = "sort"
  /\ UNCHANGED <<monitorVars, generatedData, isGenerating, progress, showReviewModal,
                 generating, prompting, attempts, editor, localData, reviewSearch,
                 currentPage, selectedRows, editingCell, original>>

\* a page button: setCurrentPage(page)
GoToPage(page) ==
  /\ showReviewModal
  /\ editor # "SimpleDataReviewEditor"
  /\ page \in 1..totalPages
  /\ page # currentPage
  /\ currentPage' = page
  /\ lastOp' = "page"
  /\ UNCHANGED <<monitorVars, generatedData, isGenerating, progress, showReviewModal,
                 generating, prompting, attempts, editor, localData, reviewSearch,
                 sortConfig, selectedRows, editingCell, original>>

\* the page shows RealTimeMonitor, which is left at rest here
InitPage == MonitorInit({"RealTime"}) /\ PageInit(Editors)

\* the requests of the page
NextPage ==
  \/ Generate
  \/ \E rows \in SyntheticData : GenerationSucceeds(rows)
  \/ GenerationFails
  \/ PromptSubmit
  \/ \E rows \in SyntheticData : PromptSucceeds(rows)
  \/ PromptFails
  \/ ShowReview
  \/ CloseReview

SpecPage == InitPage /\ [][NextPage]_vars

\* the review editor on generated rows
NextReview ==
  \/ Generate
  \/ \E rows \in SyntheticData : GenerationSucceeds(rows)
  \/ ShowReview
  \/ CloseReview
  \/ \E r \in 1..MaxRows : CellEdit(r)
  \/ \E v \in EditValues : CellSave(v)
  \/ \E r \in 1..MaxRows : SelectRow(r)
  \/ DeleteRows
  \/ Reset
  \/ \E term \in ReviewTerms : SetReviewSearch(term)
  \/ Sort
  \/ \E page \in 1..MaxRows : GoToPage(page)

SpecReview == InitPage /\ [][NextReview]_vars

(***************************************************************************)
(* Properties.                                                             *)
(***************************************************************************)
\* the progress a record sets the gauge to, when it carries one >= 0
HasGaugeProgress(rec) == Has(rec, "progress") /\ rec.progress >= 0

\* C1: the buffer never holds more than Capacity records, and it is exactly
\* the most recent min(n, Capacity) of the n records accepted since the last
\* clear, newest first.
C1_BufferIsRecentAccepted ==
  LET n == Len(accepted)
      k == IF n < Capacity THEN n ELSE Capacity
  IN /\ Len(activities) <= Capacity
     /\ Len(activities) = k
     /\ \A i \in 1..k : activities[i] = accepted[n + 1 - i]

\* C1 witness: more records were accepted than the buffer holds, the oldest
\* was evicted and the two newest sit in reverse arrival order
C1_Evicted ==
  /\ Len(accepted) > Capacity
  /\ Len(activities) = Capacity
  /\ Capacity >= 2
  /\ activities[1].of > activities[2].of

\* a structured update with a step and a progress, which every variant
\* turns into a record
Recorded(msg) ==
  msg.type = "generation_update" /\ Has(msg.data, "step") /\ Has(msg.data, "progress")

\* C2: a message that arrives while the monitor is paused changes neither
\* the record list nor the gauge; a structured update with step and progress
\* that arrives while it is not paused becomes the newest record, in front
\* of the records that were there.
C2_PauseGate ==
  [][lastOp' = "receive" =>
       IF isPaused
       THEN activities' = activities /\ currentProgress' = currentProgress
       ELSE Recorded(lastMessage') =>
              /\ activities' # <<>>
              /\ activities'[1].of = lastMessage'.n
              /\ Tail(activities') = slice(activities, Capacity - 1)]_vars

\* C2 witness: a message arrived during a pause and left no record, and
\* after the resume a later message is the newest record
C2_AppendAfterResume ==
  /\ lastOp = "receive"
  /\ ~isPaused
  /\ activities # <<>>
  /\ activities[1].of = lastMessage.n
  /\ \E n \in pausedArrivals :
       n < lastMessage.n /\ \A i \in DOMAIN activities : activities[i].of # n

\* C3: a message that arrived while the monitor was paused never appears in
\* the buffer in any later state.
C3_PausedArrivalsDiscarded ==
  \A i \in DOMAIN activities : activities[i].of \notin pausedArrivals

\* C4: a pause or resume step leaves the record list and the gauge as they
\* were.
C4_ToggleLeavesBuffer ==
  [][isPaused' # isPaused =>
       activities' = activities /\ currentProgress' = currentProgress]_vars

\* C5: when a record is accepted the gauge becomes its progress if that is
\* present and >= 0, and otherwise keeps its value, in every variant.
C5_GaugeFollowsProgress ==
  [][Len(accepted') = Len(accepted) + 1 =>
       currentProgress' = IF HasGaugeProgress(activities'[1])
                          THEN activities'[1].progress
                          ELSE currentProgress]_vars

\* C6: after a clear the record list is empty and the gauge is 0, in every
\* variant.
C6_ClearResets == lastOp = "clear" => activities = <<>> /\ currentProgress = 0

\* C7: a clear followed, while not paused, by the arrival of a message x
\* that yields a record leaves exactly that record in the buffer, and the
\* gauge at x.progress when that is >= 0 and at 0 otherwise.
C7_ClearThenAppend ==
  [][(lastOp = "clear" /\ lastOp' = "receive" /\ ~isPaused /\ accepted' # <<>>) =>
       /\ Len(activities') = 1
       /\ activities'[1].of = lastMessage'.n
       /\ currentProgress' = IF HasGaugeProgress(activities'[1])
                             THEN activities'[1].progress
                             ELSE 0]_vars

\* the pattern table of a monitor
PatternsOf(v) == IF v = "Unified" THEN U_patterns ELSE R_patterns

\* the patterns of each table that match each line of ParseEvents
ParseHits ==
  [v \in {"Unified", "RealTime"} |->
     [e \in ParseEvents |->
        {i \in 1..Len(PatternsOf(v)) :
           match(e.data.message, PatternsOf(v)[i].regex).ok}]]

\* the groups the bracketed-progress pattern captures in each line
ProgressGroups ==
  [v \in {"Unified", "RealTime"} |->
     [e \in ParseEvents |-> match(e.data.message, PatternsOf(v)[1].regex)]]

\* C8: the record of a free-text line is the one made by the first pattern
\* of the table that matches it, even when a later pattern matches too; a
\* line that matches the bracketed-progress pattern gets its progress, step
\* and message from it, and "[40%] Domain Analysis: scanning columns" gives
\* progress 40, step "Domain Analysis", message "scanning columns".
C8_FirstPatternApplies ==
  (lastOp = "receive" /\ activities # <<>>) =>
    LET e == [type |-> lastMessage.type, data |-> lastMessage.data]
        pats == PatternsOf(variant)
        hits == ParseHits[variant][e]
        mt == ProgressGroups[variant][e]
        rec == activities[1]
        tag == IF variant = "Unified" THEN rec.metadata.type ELSE rec.type
        step == IF variant = "Unified" THEN rec.details ELSE rec.metadata.step
    IN /\ \A i \in hits :
            ((\A j \in hits : i <= j) /\ pats[i].type \in {"progress", "system", "error"})
              => tag = pats[i].type
       /\ 1 \in hits =>
            /\ rec.progress = parseInt(mt.m[1])
            /\ step = trim(mt.m[2])
            /\ rec.message = trim(mt.m[3])
       /\ e.data.message = LineDomain40 =>
            /\ tag = "progress"
            /\ rec.progress = 40
            /\ step = "Domain Analysis"
            /\ rec.message = "scanning columns"

\* C8 witness: a line that matches the bracketed-progress pattern and the
\* error pattern was received and recorded with the progress of pattern 1
C8_TwoPatternsMatch ==
  /\ lastOp = "receive"
  /\ activities # <<>>
  /\ lastMessage.data.message = LineProgressError
  /\ Cardinality(ParseHits[variant][RawLine(LineProgressError)]) >= 2
  /\ activities[1].progress = 10

\* C9: the line "Error: connection refused" gives a record with type error,
\* level error and status error, in UnifiedRealTimeMonitor and in
\* RealTimeMonitor.
C9_ErrorLine ==
  (lastOp = "receive" /\ activities # <<>> /\ lastMessage.data.message = LineError) =>
    /\ activities[1].type = "error"
    /\ activities[1].level = "error"
    /\ activities[1].status = "error"

\* term is a substring of text when case is ignored
SubstringIgnoringCase(term, text) ==
  \E i \in 1..(Len(text) - Len(term) + 1) :
    toLowerCase(SubSeq(text, i, i + Len(term) - 1)) = toLowerCase(term)

\* the criteria of the filtered view
CriteriaHold(rec) ==
  /\ filterLevel \in {"all", rec.level}
  /\ filterAgent \in {"all", rec.agent}
  /\ \/ searchTerm = ""
     \/ SubstringIgnoringCase(searchTerm, rec.message)
     \/ SubstringIgnoringCase(searchTerm, rec.agent)

\* C10: the filtered view holds exactly the buffered records that satisfy
\* every criterion, each once, in the order of the buffer.
C10_FilteredViewExact ==
  LET idx == {i \in DOMAIN activities : CriteriaHold(activities[i])}
      f == FilteredView
  IN /\ Len(f) = Cardinality(idx)
     /\ \A k \in 1..Len(f) :
          \E i \in idx : Cardinality({j \in idx : j <= i}) = k /\ f[k] = activities[i]

\* C10 witness: with agent filter "Privacy Agent" and search text "score" a
\* buffer of one matching and one other record shows only the matching one
C10_OneOfTwoShown ==
  /\ filterAgent = "Privacy Agent"
  /\ searchTerm = "score"
  /\ Len(activities) = 2
  /\ Len(FilteredView) = 1
  /\ FilteredView[1].agent = "Privacy Agent"

\* C11: every message received while the monitor is not paused appends one
\* record for it (a fallback record when the message cannot be read).
C11_EveryEventRecorded ==
  [][(lastOp' = "receive" /\ ~isPaused) =>
       /\ Len(accepted') = Len(accepted) + 1
       /\ activities'[1].of = lastMessage'.n]_vars

\* parsing of msg throws: its message field is no string, and the free-text
\* branch of the monitors with a pattern table calls message.match on it
ParsingThrows(msg) ==
  /\ variant \in {"Unified", "RealTime"}
  /\ msg.type # "generation_update"
  /\ Has(msg.data, "message")
  /\ msg.data.message = NotAString

\* C12: when parsing of a message throws, a record with type error, status
\* error, level error and agent "System" is prepended under the capacity
\* bound and the gauge keeps its value, in every variant.
C12_ThrowBecomesErrorRecord ==
  [][(lastOp' = "receive" /\ ~isPaused /\ ParsingThrows(lastMessage')) =>
       /\ activities' # <<>>
       /\ activities'[1].of = lastMessage'.n
       /\ activities'[1].type = "error"
       /\ activities'[1].status = "error"
       /\ activities'[1].level = "error"
       /\ activities'[1].agent = "System"
       /\ Tail(activities') = slice(activities, Capacity - 1)
       /\ currentProgress' = currentProgress]_vars

\* C14: a health probe that fails marks the backend unhealthy with response
\* time 0 and leaves the gemini, agents and websockets fields as they were.
C14_FailedProbeKeepsRest ==
  [][(lastOp' = "probe_failed" /\ mounted) =>
       /\ systemStatus'.backend.healthy = FALSE
       /\ systemStatus'.backend.responseTime = 0
       /\ DOMAIN systemStatus' = DOMAIN systemStatus
       /\ \A f \in DOMAIN systemStatus \ {"backend"} :
            systemStatus'[f] = systemStatus[f]]_vars

C14_FailureAfterSuccess ==
  /\ lastOp = "probe_failed"
  /\ mounted
  /\ ~systemStatus.backend.healthy
  /\ systemStatus.backend.responseTime = 0
  /\ systemStatus.gemini.status = "online"
  /\ systemStatus.agents.active

C16_OldEffectIsSilent ==
  [][/\ lastOp' = "tick" => (mounted /\ timerArmed)
     /\ (lastOp' \in {"probe_ok", "probe_failed"} /\ lastProbe'.probe.stale) =>
          systemStatus' = systemStatus]_vars

\* C17: handling a message never changes systemStatus, and the status
\* effect never changes the records, the gauge or the pause flag.
C17_EffectsAreDisjoint ==
  [][/\ lastOp' = "receive" => systemStatus' = systemStatus
     /\ lastOp' \in {"tick", "probe_ok", "probe_failed", "connection"} =>
          UNCHANGED <<activities, currentProgress, isPaused>>]_vars

\* the message is free text that names nothing, in the form the monitor
\* reads free text from
PlainText(msg) ==
  \/ variant \in {"Unified", "RealTime"} /\ [type |-> msg.type, data |-> msg.data] = RawLine(LinePlain)
  \/ variant = "Enhanced" /\ [type |-> msg.type, data |-> msg.data] = EvTextPlain

\* C13: free text that matches no pattern and names no stage, agent, error
\* or completion is recorded as type system, status started, level info,
\* agent "System".
C13_DefaultTuple ==
  [][(lastOp' = "receive" /\ ~isPaused /\ PlainText(lastMessage')) =>
       /\ activities' # <<>> /\ activities'[1].of = lastMessage'.n
       /\ activities'[1].type = "system"
       /\ activities'[1].status = "started"
       /\ activities'[1].level = "info"
       /\ activities'[1].agent = "System"]_vars

\* the record at the head of the list was built from a structured update by
\* the detect functions of UnifiedRealTimeMonitor or RealTimeMonitor
Detected ==
  /\ lastOp = "receive"
  /\ variant \in {"Unified", "RealTime"}
  /\ lastMessage.type = "generation_update"
  /\ activities # <<>>
  /\ activities[1].of = lastMessage.n

\* the status markers the monitor compares data.status with
SuccessMarker == IF variant = "Unified" THEN M_CHECK ELSE G_CHECK
ErrorMarker == IF variant = "Unified" THEN M_CROSS ELSE G_CROSS
WarningMarker == IF variant = "Unified" THEN M_CAUTION ELSE G_CAUTION

StatusByPrecedence(d) ==
  IF FieldIs(d, "progress", 100) THEN "completed"
  ELSE IF FieldIs(d, "progress", -1) THEN "error"
  ELSE IF Has(d, "progress") /\ d.progress > 0 THEN "in_progress"
  ELSE IF FieldIs(d, "status", SuccessMarker) \/ FieldIs(d, "level", "success")
    THEN "completed"
  ELSE IF FieldIs(d, "status", ErrorMarker) \/ FieldIs(d, "level", "error")
    THEN "error"
  ELSE IF FieldIs(d, "status", WarningMarker) THEN "fallback"
  ELSE "started"

\* C18: the status of a record follows the precedence progress 100, progress
\* -1, progress > 0, then marker or level, then started.
C18_StatusPrecedence ==
  Detected => activities[1].status = StatusByPrecedence(lastMessage.data)

LevelByPrecedence(d) ==
  IF Has(d, "level") THEN d.level
  ELSE IF FieldIs(d, "progress", -1) \/ FieldIs(d, "status", ErrorMarker) THEN "error"
  ELSE IF FieldIs(d, "progress", 100) \/ FieldIs(d, "status", SuccessMarker)
    THEN "success"
  ELSE IF FieldIs(d, "status", WarningMarker) THEN "warning"
  ELSE "info"

StageTaxonomy ==
  {"initialization", "domain_analysis", "privacy_assessment", "bias_detection",
   "relationship_mapping", "quality_planning", "data_generation",
   "quality_validation", "final_assembly", "completion", "error", "system",
   "gemini_call", "agent_response", "gemini", "agent"}

\* C20: the type of every record is a stage of the taxonomy; an explicit
\* type that is a stage is the record's type, any other explicit type is
\* not copied into the record.
C20_TypeInTaxonomy ==
  /\ \A i \in 1..Len(activities) : activities[i].type \in StageTaxonomy
  /\ (Detected /\ Has(lastMessage.data, "type")
        /\ lastMessage.data.type \in StageTaxonomy) =>
       activities[1].type = lastMessage.data.type

\* C21: every record in the list has a non-empty message.
C21_MessageNeverEmpty ==
  \A i \in 1..Len(activities) : activities[i].message # ""

\* C22: the gauge is an integer in 0..100 and the progress of every record
\* in the list is absent, -1 or an integer in 0..100.
C22_ProgressInRange ==
  /\ currentProgress \in 0..100
  /\ \A i \in 1..Len(activities) :
       Has(activities[i], "progress") => activities[i].progress \in {-1} \cup 0..100

\* C23: any two records in the list at the same time have different ids.
C23_IdsDiffer ==
  \A i, j \in 1..Len(activities) : i # j => activities[i].id # activities[j].id

C25_OneRecordPerEvent ==
  \A i, j \in 1..Len(accepted) : i # j => accepted[i].of # accepted[j].of

\* C26: when no probe is in flight and the last probe to complete succeeded,
\* websockets.connected in systemStatus is the current isConnected.
C26_ConnectedIsLive ==
  (mounted /\ inFlight = {} /\ lastProbe # Null /\ lastProbe.ok) =>
    systemStatus.websockets.connected = isConnected

\* C27: one generation request at a time is in flight; when a generation
\* attempt ends, with rows or with a failure, isGenerating is false; and when
\* it ends with a failure, generatedData is empty as handleGenerate left it.
C27_GenerationAttempt ==
  [][/\ generating' <= 1
     /\ lastOp' \in {"generated", "generate_failed"} => ~isGenerating'
     /\ lastOp' = "generate_failed" => generatedData' = <<>>]_vars

\* the index in localData of row r of the displayed table
Shown(r) == DisplayedRows[r]

\* C28: a cell save changes the row of localData that is displayed in the
\* edited place and no other row; a delete removes the rows of localData
\* displayed in the selected places and no other row.
C28_ActsOnDisplayedRow ==
  [][/\ lastOp' = "cell_save" =>
          /\ Len(localData') = Len(localData)
          /\ \A i \in 1..Len(localData) :
               i # Shown(editingCell.row) => localData'[i] = localData[i]
     /\ lastOp' = "delete" =>
          localData' =
            SelectSeq([i \in 1..Len(localData) |->
                         IF \E d \in selectedRows :
                              d \in 1..Len(DisplayedRows) /\ Shown(d) = i
                         THEN Null ELSE localData[i]],
                      LAMBDA row : row # Null)]_vars

\* C29: after Reset the editor holds the rows it was given before the first
\* edit.
C29_ResetRestoresOriginal ==
  [][lastOp' = "reset" => localData' = original]_vars

====
